---- MODULE Spec2Model ----
(***************************************************************************)
(* Authentication & security analysis engine of harrier                    *)
(* (crates/harrier-detectors/src/auth).  AuthAnalyzer::analyze is a pure   *)
(* function of the HAR entry list; the only nondeterminism is the          *)
(* iteration order of std::collections::HashMap / HashSet, which depends   *)
(* on the per-run RandomState keys and is modelled by a hash seed.         *)
(*                                                                         *)
(* Strings are modelled as TLA+ strings read as UTF-8 BYTE strings, so     *)
(* Len(s) is Rust's str::len().  A byte >= 0x80 cannot be written          *)
(* portably in a module, so two otherwise unused ASCII characters stand    *)
(* for the two bytes of a two-byte scalar value such as U+00E9:            *)
(*   "^" is the lead byte 0xC3 and "~" is the continuation byte 0xA9.      *)
(* Option<T> is a sequence of length at most one: <<>> is None, <<v>> is   *)
(* Some(v).  Entry indices are 0-based as in the code; the entry with      *)
(* index i is har[i + 1].                                                  *)
(***************************************************************************)
EXTENDS Integers, Sequences, FiniteSets, TLC

VARIABLES
  har,        \* har.log.entries, the list handed to AuthAnalyzer::analyze
  pc,         \* "load" | "analyzed" | "reanalyzed" | "reported"
  analysis,   \* result of the first AuthAnalyzer::analyze(har)
  analysis2,  \* result of a second AuthAnalyzer::analyze(har) on the same list
  report,     \* generate_summary / aggregate_security_findings of analysis
  workers,    \* the detectors of a run on separate workers: its input, the
              \* detectors that have finished, whether one has aborted
  parallel    \* the AuthAnalysis assembled from the results of the workers

vars == <<har, pc, analysis, analysis2, report, workers, parallel>>

None == <<>>
Some(v) == <<v>>
IsSome(o) == Len(o) = 1
Unwrap(o) == o[1]

\* Option::and_then and the ? operator; Bind names a value computed once
AndThen(o, F(_)) == IF o = <<>> THEN <<>> ELSE F(o[1])
Bind(v, F(_)) == F(v)

Min(a, b) == IF a <= b THEN a ELSE b
Max(a, b) == IF a >= b THEN a ELSE b

(***************************************************************************)
(* Byte strings: the str methods the detectors use.                        *)
(***************************************************************************)
At(s, i) == SubSeq(s, i, i)

\* str::contains(pat)
Contains(s, p) ==
  \E i \in 1..(Len(s) - Len(p) + 1) : SubSeq(s, i, i + Len(p) - 1) = p

\* str::starts_with(pat)
StartsWith(s, p) == Len(s) >= Len(p) /\ SubSeq(s, 1, Len(p)) = p

\* str::find(pat): 0-based byte offset of the first match, None if absent
Find(s, p) ==
  IF Contains(s, p)
  THEN Some((CHOOSE i \in 1..(Len(s) - Len(p) + 1) :
               /\ SubSeq(s, i, i + Len(p) - 1) = p
               /\ \A j \in 1..(i - 1) : SubSeq(s, j, j + Len(p) - 1) # p) - 1)
  ELSE None

\* &s[from..] with a 0-based byte offset
SliceFrom(s, from) == SubSeq(s, from + 1, Len(s))

UpperAlpha == "ABCDEFGHIJKLMNOPQRSTUVWXYZ"
LowerAlpha == "abcdefghijklmnopqrstuvwxyz"
Digits == "0123456789"

CharIn(c, alphabet) == \E i \in 1..Len(alphabet) : At(alphabet, i) = c

LowerChar(c) ==
  IF CharIn(c, UpperAlpha)
  THEN At(LowerAlpha, CHOOSE i \in 1..26 : At(UpperAlpha, i) = c)
  ELSE c

\* str::to_lowercase (ASCII letters; the modelled non-ASCII scalar has no case)
\* (computed by halving, as are the other maps over the bytes of a string)
RECURSIVE ToLower(_)
ToLower(s) ==
  IF Len(s) = 0 THEN ""
  ELSE IF Len(s) = 1 THEN LowerChar(s)
  ELSE ToLower(SubSeq(s, 1, Len(s) \div 2))
         \o ToLower(SubSeq(s, Len(s) \div 2 + 1, Len(s)))

\* char::is_whitespace for the bytes that occur
IsSpace(c) == c = " "

\* str::trim_start: drop the leading whitespace
TrimStart(s) ==
  LET leading == {i \in 1..Len(s) : \A j \in 1..i : IsSpace(At(s, j))}
  IN  SubSeq(s, Cardinality(leading) + 1, Len(s))

\* str::trim_end: drop the trailing whitespace
TrimEnd(s) ==
  LET trailing == {i \in 1..Len(s) : \A j \in i..Len(s) : IsSpace(At(s, j))}
  IN  SubSeq(s, 1, Len(s) - Cardinality(trailing))

\* str::trim
Trim(s) == TrimEnd(TrimStart(s))

\* str::strip_prefix: Some(rest) if s starts with p, else None
StripPrefix(s, p) ==
  IF StartsWith(s, p) THEN Some(SubSeq(s, Len(p) + 1, Len(s))) ELSE None

\* str::trim_start_matches(pat): removes EVERY leading repetition of pat
RECURSIVE TrimStartMatches(_, _)
TrimStartMatches(s, p) ==
  IF p # "" /\ StartsWith(s, p)
  THEN TrimStartMatches(SubSeq(s, Len(p) + 1, Len(s)), p)
  ELSE s

\* str::split(sep): always at least one part
RECURSIVE Split(_, _)
Split(s, sep) ==
  IF Contains(s, sep)
  THEN LET i == Unwrap(Find(s, sep))
       IN  <<SubSeq(s, 1, i)>> \o Split(SliceFrom(s, i + Len(sep)), sep)
  ELSE <<s>>

\* UTF-8 continuation bytes (10xxxxxx); see the module comment
ContinuationBytes == {"~"}

\* str::is_char_boundary(n)
IsCharBoundary(s, n) ==
  \/ n = 0
  \/ n = Len(s)
  \/ n < Len(s) /\ At(s, n + 1) \notin ContinuationBytes

\* &s[..n] panics ("byte index n is not a char boundary") unless this holds
SliceToOk(s, n) == n <= Len(s) /\ IsCharBoundary(s, n)
SliceTo(s, n) == SubSeq(s, 1, n)

(***************************************************************************)
(* Byte order of strings (str::cmp), for the sort_by calls.                *)
(***************************************************************************)
Ascii == " !\"#$%&'()*+,-./0123456789:;<=>?@ABCDEFGHIJKLMNOPQRSTUVWXYZ[\\]_abcdefghijklmnopqrstuvwxyz{|}"

\* position in byte order; the two stand-ins for bytes >= 0x80 sort last
ByteRank(c) ==
  IF c = "^" THEN 200
  ELSE IF c = "~" THEN 201
  ELSE CHOOSE i \in 1..Len(Ascii) : At(Ascii, i) = c

\* a < b: decided at the first byte that differs, else by the length
StrLess(a, b) ==
  LET differ == {i \in 1..Min(Len(a), Len(b)) : At(a, i) # At(b, i)}
      first == CHOOSE i \in differ : \A j \in differ : i <= j
  IN  IF differ = {} THEN Len(a) < Len(b)
      ELSE ByteRank(At(a, first)) < ByteRank(At(b, first))

StrLeq(a, b) == a = b \/ StrLess(a, b)

(***************************************************************************)
(* Sequences: iterator adaptors and the stable slice::sort_by.             *)
(***************************************************************************)
\* the concatenation of a sequence of sequences (or of strings, from "")
RECURSIVE ConcatFrom(_, _)
ConcatFrom(ss, empty) ==
  IF Len(ss) = 0 THEN empty
  ELSE IF Len(ss) = 1 THEN ss[1]
  ELSE ConcatFrom(SubSeq(ss, 1, Len(ss) \div 2), empty)
         \o ConcatFrom(SubSeq(ss, Len(ss) \div 2 + 1, Len(ss)), empty)

Flatten(ss) == ConcatFrom(ss, <<>>)

Range(s) == {s[i] : i \in 1..Len(s)}

\* the comparators the detectors pass to sort_by: cmp on Strings (byte
\* order, ascending) and b.count.cmp(&a.count) on integers (descending)
KeyBefore(mode, a, b) == IF mode = "ascending" THEN StrLess(a, b) ELSE a > b

\* insert x after every element that is not greater (keeps the sort stable)
RECURSIVE InsertSorted(_, _, _)
InsertSorted(x, s, mode) ==
  IF s = <<>> THEN <<x>>
  ELSE IF KeyBefore(mode, x.key, Head(s).key) THEN <<x>> \o s
  ELSE <<Head(s)>> \o InsertSorted(x, Tail(s), mode)

RECURSIVE SortKeyed(_, _)
SortKeyed(s, mode) ==
  IF s = <<>> THEN <<>>
  ELSE InsertSorted(s[Len(s)], SortKeyed(SubSeq(s, 1, Len(s) - 1), mode), mode)

\* slice::sort_by on the key keys[i] of s[i]: a stable sort, equal elements
\* keep their order
StableSort(s, keys, mode) ==
  LET keyed == SortKeyed([i \in 1..Len(s) |-> [key |-> keys[i], val |-> s[i]]], mode)
  IN  [i \in 1..Len(s) |-> keyed[i].val]

(***************************************************************************)
(* std::collections::HashMap / HashSet iteration.  The order in which a    *)
(* hash container yields its keys is a function of the keys and of the     *)
(* RandomState of the run, and of nothing the detectors control.  A run    *)
(* draws a seed below HashSeeds; the container yields its keys in the      *)
(* seed-th permutation (factorial number system) of their byte order.      *)
(***************************************************************************)
HashSeeds == 2

RECURSIVE SortedKeys(_)
SortedKeys(S) ==
  IF S = {} THEN <<>>
  ELSE LET m == CHOOSE x \in S : \A y \in S : StrLeq(x, y)
       IN  <<m>> \o SortedKeys(S \ {m})

RemoveAt(s, i) == SubSeq(s, 1, i - 1) \o SubSeq(s, i + 1, Len(s))

RECURSIVE KthPermutation(_, _)
KthPermutation(s, k) ==
  IF s = <<>> THEN <<>>
  ELSE LET i == (k % Len(s)) + 1
       IN  <<s[i]>> \o KthPermutation(RemoveAt(s, i), k \div Len(s))

\* the keys of a hash container in the order into_iter() yields them
HashIter(keys, seed) == KthPermutation(SortedKeys(keys), seed)

(***************************************************************************)
(* harrier_core::har types (the fields the detectors read).                *)
(***************************************************************************)
Header(name, value) == [name |-> name, value |-> value]

\* http_only and secure are Option<bool>
Cookie(name, value, http_only, secure) ==
  [name |-> name, value |-> value, http_only |-> http_only, secure |-> secure]

\* text is Option<String>
PostData(mime_type, text) == [mime_type |-> mime_type, text |-> text]

\* post_data is Option<PostData>
Request(method, url, headers, cookies, post_data) ==
  [method |-> method, url |-> url, headers |-> headers, cookies |-> cookies,
   post_data |-> post_data]

Content(mime_type, text) == [mime_type |-> mime_type, text |-> text]

Response(status, headers, cookies, content) ==
  [status |-> status, headers |-> headers, cookies |-> cookies,
   content |-> content]

Entry(started_date_time, request, response) ==
  [started_date_time |-> started_date_time, request |-> request,
   response |-> response]

\* entries[i] and the index range of entries.iter().enumerate()
EntryAt(entries, i) == entries[i + 1]
Indices(entries) == 0..(Len(entries) - 1)

\* post_data.text when both Options are Some, else None
PostText(entry) ==
  IF IsSome(entry.request.post_data)
  THEN Unwrap(entry.request.post_data).text
  ELSE None

(***************************************************************************)
(* methods.rs: AuthDetector                                                *)
(***************************************************************************)
Method(tag, name) == [tag |-> tag, name |-> name]

JwtSegmentBytes == UpperAlpha \o LowerAlpha \o Digits \o "-_"

IsJwtSegment(p) ==
  p # "" /\ \A i \in 1..Len(p) : CharIn(At(p, i), JwtSegmentBytes)

JWT_PATTERN_drops_class(token) ==
  LET parts == Split(token, ".")
  IN  Len(parts) = 3 /\ \A i \in 1..3 : parts[i] # ""

\* Regex ^[A-Za-z0-9-_]+\.[A-Za-z0-9-_]+\.[A-Za-z0-9-_]+$ .is_match(token)
JWT_PATTERN(token) ==
  LET parts == Split(token, ".")
  IN  Len(parts) = 3 /\ \A i \in 1..3 : IsJwtSegment(parts[i])

\* AuthDetector::has_auth_cookie, on the value of a Cookie request header
has_auth_cookie(cookie_header) ==
  LET lower == ToLower(cookie_header)
  IN  \E name \in {"session", "auth", "token", "jwt", "sid"} :
        Contains(lower, name)

\* AuthDetector::is_auth_cookie
methods_is_auth_cookie(name) ==
  LET lower == ToLower(name)
  IN  \/ Contains(lower, "session")
      \/ Contains(lower, "auth")
      \/ Contains(lower, "token")
      \/ Contains(lower, "jwt")
      \/ lower = "sid"

\* what one request header inserts into auth_methods (the match in detect)
header_methods(header) ==
  LET header_name == ToLower(header.name)
      header_value == header.value
  IN  IF header_name = "authorization"
      THEN IF StartsWith(header_value, "Basic ")
           THEN {Method("Basic", "")}
           ELSE IF StartsWith(header_value, "Bearer ")
           THEN IF JWT_PATTERN(TrimStartMatches(header_value, "Bearer "))
                THEN {Method("Jwt", "")}
                ELSE {Method("Bearer", "")}
           ELSE IF StartsWith(header_value, "OAuth ")
           THEN {Method("OAuth", "")}
           ELSE {}
      ELSE IF header_name \in {"x-api-key", "api-key", "apikey"}
      THEN {Method("ApiKey", header.name)}
      ELSE IF header_name = "cookie"
      THEN IF has_auth_cookie(header_value) THEN {Method("Cookie", "")} ELSE {}
      ELSE IF Contains(header_name, "auth") \/ Contains(header_name, "token")
      THEN {Method("Custom", header.name)}
      ELSE {}

\* what one entry inserts into auth_methods
entry_methods(entry) ==
  UNION {header_methods(entry.request.headers[i]) :
           i \in 1..Len(entry.request.headers)}
  \cup {Method("Cookie", "") : i \in {j \in 1..Len(entry.request.cookies) :
           methods_is_auth_cookie(entry.request.cookies[j].name)}}

\* the HashSet auth_methods after the loop over the entries
auth_methods(entries) ==
  UNION {entry_methods(entries[i]) : i \in 1..Len(entries)}

MethodKey(m) == m.tag \o ":" \o m.name

\* AuthDetector::detect: auth_methods.into_iter().collect()
detect(entries, seed) ==
  LET set == auth_methods(entries)
      order == HashIter({MethodKey(m) : m \in set}, seed)
  IN  [i \in 1..Len(order) |-> CHOOSE m \in set : MethodKey(m) = order[i]]

(***************************************************************************)
(* Timestamps.  started_date_time is an RFC 3339 string; the code parses   *)
(* it with chrono.  The parser below accepts                               *)
(*   YYYY-MM-DDTHH:MM:SS[.fff](Z|+HH:MM|-HH:MM)                            *)
(* and computes milliseconds since the Unix epoch; every other string is   *)
(* a parse error.                                                          *)
(***************************************************************************)
IsDigits(s) == s # "" /\ \A i \in 1..Len(s) : CharIn(At(s, i), Digits)

DigitValue(c) == (CHOOSE i \in 1..10 : At(Digits, i) = c) - 1

RECURSIVE ToInt(_)
ToInt(s) ==
  IF s = "" THEN 0
  ELSE 10 * ToInt(SubSeq(s, 1, Len(s) - 1)) + DigitValue(At(s, Len(s)))

IsLeapYear(y) == (y % 4 = 0 /\ y % 100 # 0) \/ y % 400 = 0

DaysInMonth(y, m) ==
  IF m = 2 THEN (IF IsLeapYear(y) THEN 29 ELSE 28)
  ELSE IF m \in {4, 6, 9, 11} THEN 30 ELSE 31

\* days from 1970-01-01 to the civil date y-m-d
DaysFromCivil(y, m, d) ==
  LET yy == IF m <= 2 THEN y - 1 ELSE y
      era == yy \div 400
      yoe == yy - era * 400
      mp == (m + 9) % 12
      doy == (153 * mp + 2) \div 5 + d - 1
      doe == yoe * 365 + yoe \div 4 - yoe \div 100 + doy
  IN  era * 146097 + doe - 719468

\* the fields of a timestamp, or None when the string is not in the format
TimestampFields(s) ==
  LET n == Len(s)
      frac == n >= 20 /\ At(s, 20) = "."
      t == IF frac THEN 24 ELSE 20      \* position of the offset
      zone == SubSeq(s, t, n)
      shape ==
        /\ n >= 20
        /\ IsDigits(SubSeq(s, 1, 4)) /\ At(s, 5) = "-"
        /\ IsDigits(SubSeq(s, 6, 7)) /\ At(s, 8) = "-"
        /\ IsDigits(SubSeq(s, 9, 10)) /\ At(s, 11) = "T"
        /\ IsDigits(SubSeq(s, 12, 13)) /\ At(s, 14) = ":"
        /\ IsDigits(SubSeq(s, 15, 16)) /\ At(s, 17) = ":"
        /\ IsDigits(SubSeq(s, 18, 19))
        /\ (frac => IsDigits(SubSeq(s, 21, 23)))
        /\ \/ zone = "Z"
           \/ /\ Len(zone) = 6
              /\ At(zone, 1) \in {"+", "-"}
              /\ IsDigits(SubSeq(zone, 2, 3)) /\ At(zone, 4) = ":"
              /\ IsDigits(SubSeq(zone, 5, 6))
  IN  IF ~shape THEN None
      ELSE LET f == [year |-> ToInt(SubSeq(s, 1, 4)),
                     month |-> ToInt(SubSeq(s, 6, 7)),
                     day |-> ToInt(SubSeq(s, 9, 10)),
                     hour |-> ToInt(SubSeq(s, 12, 13)),
                     minute |-> ToInt(SubSeq(s, 15, 16)),
                     second |-> ToInt(SubSeq(s, 18, 19)),
                     millis |-> IF frac THEN ToInt(SubSeq(s, 21, 23)) ELSE 0,
                     offset |-> IF zone = "Z" THEN 0
                                ELSE (IF At(zone, 1) = "-" THEN -1 ELSE 1)
                                     * (60 * ToInt(SubSeq(zone, 2, 3))
                                        + ToInt(SubSeq(zone, 5, 6)))]
           IN  IF /\ f.month \in 1..12
                  /\ f.day \in 1..DaysInMonth(f.year, f.month)
                  /\ f.hour \in 0..23 /\ f.minute \in 0..59
                  /\ f.second \in 0..59
                  /\ (zone # "Z" => ToInt(SubSeq(zone, 2, 3)) \in 0..23
                                    /\ ToInt(SubSeq(zone, 5, 6)) \in 0..59)
               THEN Some(f)
               ELSE None

\* DateTime::timestamp_millis of a parsed timestamp
TimestampMillis(f) ==
  ((DaysFromCivil(f.year, f.month, f.day) * 24 + f.hour) * 60
     + f.minute - f.offset) * 60000 + f.second * 1000 + f.millis

\* SessionTracker::parse_timestamp: 0.0 when the string does not parse
parse_timestamp(timestamp) ==
  LET f == TimestampFields(timestamp)
  IN  IF IsSome(f) THEN TimestampMillis(Unwrap(f)) ELSE 0

(***************************************************************************)
(* sessions.rs: SessionTracker                                             *)
(***************************************************************************)
\* SessionType::Cookie { name }, BearerToken { is_jwt }, ApiKey { header_name }
\* as one record shape: name is the cookie name or the header name
SessionType(type, name, is_jwt) == [type |-> type, name |-> name, is_jwt |-> is_jwt]

\* SessionAttributes::from_cookie (the flags the detectors read)
from_cookie(cookie) ==
  [http_only |-> cookie.http_only, secure |-> cookie.secure, same_site |-> None]

sessions_is_auth_cookie(name) ==
  LET lower == ToLower(name)
  IN  \/ Contains(lower, "session")
      \/ Contains(lower, "auth")
      \/ Contains(lower, "token")
      \/ Contains(lower, "jwt")
      \/ Contains(lower, "sid")
      \/ lower = "connect.sid"
      \/ lower = "jsessionid"
      \/ lower = "phpsessid"
      \/ StartsWith(lower, "__host-")
      \/ StartsWith(lower, "__secure-")

is_api_key_header(name) ==
  ToLower(name) \in {"x-api-key", "api-key", "apikey", "x-api-token", "api-token"}

\* header_value.strip_prefix("Bearer ").map(|s| s.trim())
sessions_extract_bearer_token(header_value) ==
  LET rest == StripPrefix(header_value, "Bearer ")
  IN  IF IsSome(rest) THEN Some(Trim(Unwrap(rest))) ELSE None

sessions_is_jwt(token) ==
  LET parts == Split(token, ".")
  IN  Len(parts) = 3 /\ \A i \in 1..Len(parts) : parts[i] # ""

TokenIdentifierLen == 16
TruncateValueLen == 12

\* &token[..16] is a byte slice: it panics off a char boundary
token_identifier_panics(token) ==
  Len(token) > TokenIdentifierLen /\ ~SliceToOk(token, TokenIdentifierLen)

token_identifier(token) ==
  IF Len(token) > TokenIdentifierLen
  THEN SliceTo(token, TokenIdentifierLen) \o "..."
  ELSE token

truncate_value_panics(value) ==
  Len(value) > TruncateValueLen /\ ~SliceToOk(value, TruncateValueLen)

truncate_value(value) ==
  IF Len(value) > TruncateValueLen
  THEN SliceTo(value, TruncateValueLen) \o "..."
  ELSE value

\* the pushes of the first pass, in push order: (idx, entry, cookie)
cookie_pushes(entries) ==
  Flatten([i \in 1..Len(entries) |->
    Flatten([j \in 1..Len(entries[i].request.cookies) |->
      LET cookie == entries[i].request.cookies[j]
      IN  IF sessions_is_auth_cookie(cookie.name)
          THEN <<[key |-> cookie.name, idx |-> i - 1, cookie |-> cookie]>>
          ELSE <<>>])])

\* the Bearer tokens of the Authorization headers, in header order
bearer_tokens(entries) ==
  Flatten([i \in 1..Len(entries) |->
    Flatten([j \in 1..Len(entries[i].request.headers) |->
      LET header == entries[i].request.headers[j]
          token == sessions_extract_bearer_token(header.value)
      IN  IF ToLower(header.name) = "authorization" /\ IsSome(token)
          THEN <<[idx |-> i - 1, token |-> Unwrap(token)]>>
          ELSE <<>>])])

bearer_pushes(entries) ==
  LET tokens == bearer_tokens(entries)
  IN  [k \in 1..Len(tokens) |->
         [key |-> token_identifier(tokens[k].token), idx |-> tokens[k].idx,
          token |-> tokens[k].token]]

apikey_headers(entries) ==
  Flatten([i \in 1..Len(entries) |->
    Flatten([j \in 1..Len(entries[i].request.headers) |->
      LET header == entries[i].request.headers[j]
      IN  IF is_api_key_header(header.name)
          THEN <<[idx |-> i - 1, header |-> header]>>
          ELSE <<>>])])

apikey_pushes(entries) ==
  LET headers == apikey_headers(entries)
  IN  [k \in 1..Len(headers) |->
         [key |-> headers[k].header.name \o ":"
                    \o truncate_value(headers[k].header.value),
          idx |-> headers[k].idx, header_name |-> headers[k].header.name]]

\* the Vec stored under one key of a grouping map
Group(pushes, key) == SelectSeq(pushes, LAMBDA p : p.key = key)

Keys(pushes) == {pushes[k].key : k \in 1..Len(pushes)}

\* last_time - first_time, each side 0.0 when its timestamp does not parse
session_duration(entries, group) ==
  parse_timestamp(EntryAt(entries, group[Len(group)].idx).started_date_time)
    - parse_timestamp(EntryAt(entries, group[1].idx).started_date_time)

AuthSession_positions_from_one(session_type, identifier, entries, group, attributes) ==
  [session_type |-> session_type,
   identifier |-> identifier,
   first_seen |-> EntryAt(entries, group[1].idx).started_date_time,
   last_seen |-> EntryAt(entries, group[Len(group)].idx).started_date_time,
   request_count |-> Len(group),
   duration_ms |-> session_duration(entries, group),
   entry_indices |-> [k \in 1..Len(group) |-> group[k].idx + 1],
   attributes |-> attributes]

AuthSession(session_type, identifier, entries, group, attributes) ==
  [session_type |-> session_type,
   identifier |-> identifier,
   first_seen |-> EntryAt(entries, group[1].idx).started_date_time,
   last_seen |-> EntryAt(entries, group[Len(group)].idx).started_date_time,
   request_count |-> Len(group),
   duration_ms |-> session_duration(entries, group),
   entry_indices |-> [k \in 1..Len(group) |-> group[k].idx],
   attributes |-> attributes]

build_cookie_session(entries, cookie_name, group) ==
  AuthSession(SessionType("Cookie", cookie_name, FALSE),
              cookie_name \o "=" \o truncate_value(group[1].cookie.value),
              entries, group, Some(from_cookie(group[1].cookie)))

build_bearer_session(entries, token_key, group) ==
  AuthSession(SessionType("BearerToken", "", sessions_is_jwt(group[1].token)),
              "Bearer " \o truncate_value(token_key),
              entries, group, None)

build_apikey_session(entries, key, group) ==
  AuthSession(SessionType("ApiKey", group[1].header_name, FALSE),
              group[1].header_name \o ": ***",
              entries, group, None)

\* the byte slices track_sessions takes that are not on a char boundary
track_sessions_panics(entries) ==
  LET tokens == bearer_tokens(entries)
      headers == apikey_headers(entries)
      cookies == cookie_pushes(entries)
  IN  \/ \E k \in 1..Len(tokens) : token_identifier_panics(tokens[k].token)
      \/ \E k \in 1..Len(headers) : truncate_value_panics(headers[k].header.value)
      \/ \E key \in Keys(cookies) :
           truncate_value_panics(Group(cookies, key)[1].cookie.value)
      \/ \E k \in 1..Len(tokens) :
           truncate_value_panics(token_identifier(tokens[k].token))

\* the sessions left in the order the maps yielded them
sort_by_first_seen_skipped(sessions) == sessions

\* sessions.sort_by(|a, b| a.first_seen.cmp(&b.first_seen))
sort_by_first_seen(sessions) ==
  StableSort(sessions, [k \in 1..Len(sessions) |-> sessions[k].first_seen],
             "ascending")

\* the sessions in the order the three maps yield them, before the sort
sessions_unsorted(entries, seed) ==
  LET cookies == cookie_pushes(entries)
      bearers == bearer_pushes(entries)
      apikeys == apikey_pushes(entries)
      cookie_keys == HashIter(Keys(cookies), seed)
      bearer_keys == HashIter(Keys(bearers), seed)
      apikey_keys == HashIter(Keys(apikeys), seed)
  IN  [k \in 1..Len(cookie_keys) |->
         build_cookie_session(entries, cookie_keys[k], Group(cookies, cookie_keys[k]))]
      \o [k \in 1..Len(bearer_keys) |->
         build_bearer_session(entries, bearer_keys[k], Group(bearers, bearer_keys[k]))]
      \o [k \in 1..Len(apikey_keys) |->
         build_apikey_session(entries, apikey_keys[k], Group(apikeys, apikey_keys[k]))]

track_sessions(entries, seed) == sort_by_first_seen(sessions_unsorted(entries, seed))

(***************************************************************************)
(* security.rs: SecurityAnalyzer                                           *)
(***************************************************************************)
\* entry_index is Option<usize>
SecurityNote(severity, category, message, entry_index) ==
  [severity |-> severity, category |-> category, message |-> message,
   entry_index |-> entry_index]

\* slice::first().copied()
First(s) == IF s = <<>> THEN None ELSE Some(s[1])

analyze_methods(methods) ==
  Flatten([k \in 1..Len(methods) |->
    IF methods[k].tag = "Basic"
    THEN <<SecurityNote("Warning", "Authentication Method",
             "Basic Authentication detected - credentials encoded in header (use HTTPS)",
             None)>>
    ELSE IF methods[k].tag = "ApiKey"
    THEN <<SecurityNote("Info", "Authentication Method",
             "API Key authentication detected", None)>>
    ELSE <<>>])

\* Some(false) or None
FlagMissing(flag) == flag = Some(FALSE) \/ flag = None

\* the notes of one session (one iteration of the loop in analyze_sessions)
session_notes(session, entries) ==
  LET name == session.session_type.name
      first_idx == session.entry_indices[1]
      url == EntryAt(entries, first_idx).request.url
  IN  IF session.session_type.type = "Cookie"
      THEN IF IsSome(session.attributes)
           THEN LET attrs == Unwrap(session.attributes)
                IN  (IF FlagMissing(attrs.http_only)
                     THEN <<SecurityNote("Warning", "Cookie Security",
                              "Cookie '" \o name
                                \o "' missing HttpOnly flag (vulnerable to XSS)",
                              First(session.entry_indices))>>
                     ELSE <<>>)
                    \o (IF /\ session.entry_indices # <<>>
                           /\ first_idx < Len(entries)
                           /\ StartsWith(url, "https://")
                           /\ FlagMissing(attrs.secure)
                        THEN <<SecurityNote("Warning", "Cookie Security",
                                 "Cookie '" \o name
                                   \o "' on HTTPS connection missing Secure flag",
                                 Some(first_idx))>>
                        ELSE <<>>)
                    \o (IF attrs.same_site = None
                        THEN <<SecurityNote("Info", "Cookie Security",
                                 "Cookie '" \o name
                                   \o "' missing SameSite attribute (consider setting to Lax or Strict)",
                                 First(session.entry_indices))>>
                        ELSE <<>>)
           ELSE <<>>
      ELSE IF session.session_type.type = "BearerToken"
      THEN IF session.session_type.is_jwt
           THEN <<SecurityNote("Info", "Token Security",
                    "JWT tokens detected - ensure tokens are validated and not expired",
                    First(session.entry_indices))>>
           ELSE <<>>
      ELSE IF /\ session.entry_indices # <<>>
              /\ first_idx < Len(entries)
              /\ \/ Contains(url, "api_key=")
                 \/ Contains(url, "apikey=")
                 \/ Contains(url, "key=")
      THEN <<SecurityNote("Warning", "API Key Security",
               "API key detected in query parameter (prefer header-based authentication)",
               Some(first_idx))>>
      ELSE <<>>

analyze_sessions(sessions, entries) ==
  Flatten([k \in 1..Len(sessions) |-> session_notes(sessions[k], entries)])

security_is_auth_cookie(name) ==
  LET lower == ToLower(name)
  IN  \E word \in {"session", "auth", "token", "jwt", "sid"} :
        Contains(lower, word)

\* the test analyze_requests applies to one entry
sends_auth_over_http(entry) ==
  /\ StartsWith(entry.request.url, "http://")
  /\ \/ \E j \in 1..Len(entry.request.headers) :
          LET name_lower == ToLower(entry.request.headers[j].name)
          IN  name_lower = "authorization" \/ Contains(name_lower, "api")
     \/ \E j \in 1..Len(entry.request.cookies) :
          security_is_auth_cookie(entry.request.cookies[j].name)

analyze_requests_every(entries) ==
  Flatten([n \in 1..Len(entries) |->
    IF sends_auth_over_http(entries[n])
    THEN <<SecurityNote("Critical", "Transport Security",
             "Authentication credentials sent over unencrypted HTTP connection (use HTTPS)",
             Some(n - 1))>>
    ELSE <<>>])

\* one note, for the first such entry (http_auth_seen suppresses the rest)
analyze_requests(entries) ==
  LET hits == {i \in Indices(entries) : sends_auth_over_http(EntryAt(entries, i))}
  IN  IF hits = {} THEN <<>>
      ELSE <<SecurityNote("Critical", "Transport Security",
               "Authentication credentials sent over unencrypted HTTP connection (use HTTPS)",
               Some(CHOOSE i \in hits : \A j \in hits : i <= j))>>

\* SecurityAnalyzer::analyze
security_analyze(entries, methods, sessions) ==
  analyze_methods(methods) \o analyze_sessions(sessions, entries)
    \o analyze_requests(entries)

(***************************************************************************)
(* flows.rs: FlowDetector                                                  *)
(***************************************************************************)
AuthFlowType(type, pkce) == [type |-> type, pkce |-> pkce]

UrlMaxLen == 80
UrlKeepLen == 77

\* &url[..77] is a byte slice: it panics off a char boundary
truncate_url_panics(url) == Len(url) > UrlMaxLen /\ ~SliceToOk(url, UrlKeepLen)

truncate_url(url) ==
  IF Len(url) > UrlMaxLen THEN SliceTo(url, UrlKeepLen) \o "..." ELSE url

\* a matched entry before its FlowStep is built
Match(idx, role, description) ==
  [idx |-> idx, role |-> role, description |-> description]

FlowStep(entries, m) ==
  LET entry == EntryAt(entries, m.idx)
  IN  [entry_index |-> m.idx,
       timestamp |-> entry.started_date_time,
       role |-> m.role,
       method |-> entry.request.method,
       url |-> truncate_url(entry.request.url),
       status |-> entry.response.status,
       description |-> m.description]

\* DateTime::parse_from_rfc3339
parse_from_rfc3339(s) == TimestampFields(s)

\* 0.0 as a whole when either timestamp does not parse
calculate_duration(start, end) ==
  IF ~IsSome(end) THEN 0
  ELSE LET start_time == parse_from_rfc3339(start)
           end_time == parse_from_rfc3339(Unwrap(end))
       IN  IF ~IsSome(start_time) \/ ~IsSome(end_time) THEN 0
           ELSE TimestampMillis(Unwrap(end_time)) - TimestampMillis(Unwrap(start_time))

\* the AuthFlow pushed for a list of matched steps
AuthFlow(entries, flow_type, matches) ==
  LET steps == [k \in 1..Len(matches) |-> FlowStep(entries, matches[k])]
      start_time == steps[1].timestamp
      end_time == Some(steps[Len(steps)].timestamp)
  IN  [flow_type |-> flow_type,
       start_time |-> start_time,
       end_time |-> end_time,
       duration_ms |-> calculate_duration(start_time, end_time),
       steps |-> steps]

\* for (i, entry) in entries.iter().enumerate().skip(start_idx): return the
\* first entry that matches; the entry is tested BEFORE the test
\* `i - start_idx > window` breaks the loop, so the entries with index
\* start_idx .. start_idx + window + 1 are tested
FindFrom(entries, start_idx, window, Matches(_)) ==
  LET hits == {i \in start_idx..Min(Len(entries) - 1, start_idx + window + 1) :
                 Matches(EntryAt(entries, i))}
  IN  IF hits = {} THEN None
      ELSE Some(CHOOSE i \in hits : \A j \in hits : i <= j)

CallbackWindow == 10
TokenExchangeWindow == 10
FormSubmissionWindow == 5
BearerRequestWindow == 10
SessionRequestWindow == 10

is_oauth_authorize_request(entry) ==
  Contains(entry.request.url, "/authorize")
    \/ Contains(entry.request.url, "/oauth/authorize")

has_pkce_challenge(entry) ==
  Contains(entry.request.url, "code_challenge=")
    /\ Contains(entry.request.url, "code_challenge_method=")

is_authorization_callback(entry) ==
  Contains(entry.request.url, "?code=") \/ Contains(entry.request.url, "&code=")

find_authorization_callback(entries, start_idx) ==
  FindFrom(entries, start_idx, CallbackWindow, is_authorization_callback)

is_token_exchange_any_verifier(entry, expect_pkce) ==
  /\ entry.request.method = "POST"
  /\ Contains(entry.request.url, "/token") \/ Contains(entry.request.url, "/oauth/token")
  /\ IsSome(PostText(entry))
  /\ Contains(Unwrap(PostText(entry)), "grant_type=authorization_code")

is_token_exchange(entry, expect_pkce) ==
  /\ entry.request.method = "POST"
  /\ Contains(entry.request.url, "/token") \/ Contains(entry.request.url, "/oauth/token")
  /\ IsSome(PostText(entry))
  /\ Contains(Unwrap(PostText(entry)), "grant_type=authorization_code")
  /\ expect_pkce => Contains(Unwrap(PostText(entry)), "code_verifier=")

find_token_exchange(entries, start_idx, expect_pkce) ==
  LET Matches(entry) == is_token_exchange(entry, expect_pkce)
  IN  FindFrom(entries, start_idx, TokenExchangeWindow, Matches)

is_client_credentials_request(entry) ==
  /\ entry.request.method = "POST"
  /\ Contains(entry.request.url, "/token") \/ Contains(entry.request.url, "/oauth/token")
  /\ IsSome(PostText(entry))
  /\ Contains(Unwrap(PostText(entry)), "grant_type=client_credentials")

is_oauth_implicit_request(entry) ==
  Contains(entry.request.url, "/authorize")
    /\ Contains(entry.request.url, "response_type=token")

is_login_page_request(entry) ==
  /\ entry.request.method = "GET"
  /\ \/ Contains(entry.request.url, "/login")
     \/ Contains(entry.request.url, "/signin")
     \/ Contains(entry.request.url, "/auth/login")
  /\ Contains(entry.response.content.mime_type, "text/html")

is_form_submission(entry) ==
  /\ entry.request.method = "POST"
  /\ \/ Contains(entry.request.url, "/login")
     \/ Contains(entry.request.url, "/signin")
     \/ Contains(entry.request.url, "/auth")
  /\ IsSome(entry.request.post_data)
  /\ LET post_data == Unwrap(entry.request.post_data)
     IN  /\ \/ Contains(post_data.mime_type, "application/x-www-form-urlencoded")
            \/ Contains(post_data.mime_type, "multipart/form-data")
         /\ IsSome(post_data.text)
         /\ Contains(Unwrap(post_data.text), "username")
              \/ Contains(Unwrap(post_data.text), "email")
         /\ Contains(Unwrap(post_data.text), "password")

find_form_submission(entries, start_idx) ==
  FindFrom(entries, start_idx, FormSubmissionWindow, is_form_submission)

\* the cookie-name test of session_established and find_first_session_request
flows_is_session_cookie(name) ==
  LET name_lower == ToLower(name)
  IN  \/ Contains(name_lower, "session")
      \/ Contains(name_lower, "auth")
      \/ Contains(name_lower, "token")

session_established(entry) ==
  \E j \in 1..Len(entry.response.cookies) :
    flows_is_session_cookie(entry.response.cookies[j].name)

is_bearer_request(entry) ==
  \E j \in 1..Len(entry.request.headers) :
    /\ ToLower(entry.request.headers[j].name) = "authorization"
    /\ StartsWith(entry.request.headers[j].value, "Bearer ")

find_first_bearer_request(entries, start_idx) ==
  FindFrom(entries, start_idx, BearerRequestWindow, is_bearer_request)

is_session_request(entry) ==
  \E j \in 1..Len(entry.request.cookies) :
    flows_is_session_cookie(entry.request.cookies[j].name)

find_first_session_request(entries, start_idx) ==
  FindFrom(entries, start_idx, SessionRequestWindow, is_session_request)

is_json_auth_request(entry) ==
  /\ entry.request.method = "POST"
  /\ \/ Contains(entry.request.url, "/login")
     \/ Contains(entry.request.url, "/auth/login")
     \/ Contains(entry.request.url, "/api/login")
     \/ Contains(entry.request.url, "/api/auth")
  /\ IsSome(entry.request.post_data)
  /\ Contains(Unwrap(entry.request.post_data).mime_type, "application/json")
  /\ IsSome(PostText(entry))
  /\ Contains(Unwrap(PostText(entry)), "\"username\"")
       \/ Contains(Unwrap(PostText(entry)), "\"email\"")
  /\ Contains(Unwrap(PostText(entry)), "\"password\"")

has_json_token_response(entry) ==
  /\ Contains(entry.response.content.mime_type, "application/json")
  /\ IsSome(entry.response.content.text)
  /\ \E key \in {"\"token\"", "\"access_token\"", "\"accessToken\""} :
       Contains(Unwrap(entry.response.content.text), key)

\* Option<(usize, &Entry)> to the step pushed for it
StepIf(found, role, description) ==
  IF IsSome(found) THEN <<Match(Unwrap(found), role, description)>> ELSE <<>>

authorization_code_steps_unnested(entries, i) ==
  LET has_pkce == has_pkce_challenge(EntryAt(entries, i))
      callback == find_authorization_callback(entries, i + 1)
      token == find_token_exchange(entries, i + 1, has_pkce)
      auth == find_first_bearer_request(entries, i + 1)
  IN  <<Match(i, "AuthorizationRequest", "Authorization request initiated")>>
      \o StepIf(callback, "AuthorizationCallback", "Authorization code received")
      \o StepIf(token, "TokenExchange", "Token exchange request")
      \o StepIf(auth, "FirstAuthenticatedRequest", "First authenticated request")

\* the steps vector detect_oauth2_authorization_code builds for anchor i
authorization_code_steps(entries, i) ==
  LET has_pkce == has_pkce_challenge(EntryAt(entries, i))
      callback == find_authorization_callback(entries, i + 1)
      token == IF IsSome(callback)
               THEN find_token_exchange(entries, Unwrap(callback) + 1, has_pkce)
               ELSE None
      auth == IF IsSome(token)
              THEN find_first_bearer_request(entries, Unwrap(token) + 1)
              ELSE None
  IN  <<Match(i, "AuthorizationRequest", "Authorization request initiated")>>
      \o StepIf(callback, "AuthorizationCallback", "Authorization code received")
      \o StepIf(token, "TokenExchange", "Token exchange request")
      \o StepIf(auth, "FirstAuthenticatedRequest", "First authenticated request")

client_credentials_steps(entries, i) ==
  <<Match(i, "TokenExchange", "Client credentials token request")>>
  \o StepIf(find_first_bearer_request(entries, i + 1),
            "FirstAuthenticatedRequest", "First authenticated request")

implicit_steps(entries, i) ==
  <<Match(i, "AuthorizationRequest", "Implicit flow authorization (token in redirect)")>>

form_login_steps(entries, i) ==
  LET submit == find_form_submission(entries, i + 1)
      auth == IF IsSome(submit) /\ session_established(EntryAt(entries, Unwrap(submit)))
              THEN find_first_session_request(entries, Unwrap(submit) + 1)
              ELSE None
  IN  <<Match(i, "LoginPage", "Login page loaded")>>
      \o StepIf(submit, "CredentialsSubmission", "Credentials submitted")
      \o StepIf(auth, "FirstAuthenticatedRequest", "First authenticated request")

json_api_steps(entries, i) ==
  LET entry == EntryAt(entries, i)
      token == entry.response.status = 200 /\ has_json_token_response(entry)
  IN  <<Match(i, "CredentialsSubmission", "JSON authentication request")>>
      \o (IF token
          THEN <<Match(i, "TokenResponse", "Token received in JSON response")>>
               \o StepIf(find_first_bearer_request(entries, i + 1),
                         "FirstAuthenticatedRequest", "First authenticated request")
          ELSE <<>>)

detect_oauth2_authorization_code(entries) ==
  Flatten([n \in 1..Len(entries) |->
    LET steps == authorization_code_steps(entries, n - 1)
    IN  IF is_oauth_authorize_request(entries[n]) /\ Len(steps) > 1
        THEN <<AuthFlow(entries,
                 AuthFlowType("OAuth2AuthorizationCode", has_pkce_challenge(entries[n])),
                 steps)>>
        ELSE <<>>])

\* pushed for every anchor, whatever the number of steps
detect_oauth2_client_credentials(entries) ==
  Flatten([n \in 1..Len(entries) |->
    IF is_client_credentials_request(entries[n])
    THEN <<AuthFlow(entries, AuthFlowType("OAuth2ClientCredentials", FALSE),
             client_credentials_steps(entries, n - 1))>>
    ELSE <<>>])

\* end_time is Some(start_time) and duration_ms is 0.0
detect_oauth2_implicit(entries) ==
  Flatten([n \in 1..Len(entries) |->
    IF is_oauth_implicit_request(entries[n])
    THEN <<[AuthFlow(entries, AuthFlowType("OAuth2Implicit", FALSE),
               implicit_steps(entries, n - 1)) EXCEPT !.duration_ms = 0]>>
    ELSE <<>>])

\* the flow pushed for every login page, whatever the number of steps
detect_form_login_keeps_anchor(entries) ==
  Flatten([n \in 1..Len(entries) |->
    IF is_login_page_request(entries[n])
    THEN <<AuthFlow(entries, AuthFlowType("FormBased", FALSE),
             form_login_steps(entries, n - 1))>>
    ELSE <<>>])

detect_form_login(entries) ==
  Flatten([n \in 1..Len(entries) |->
    LET steps == form_login_steps(entries, n - 1)
    IN  IF is_login_page_request(entries[n]) /\ Len(steps) > 1
        THEN <<AuthFlow(entries, AuthFlowType("FormBased", FALSE), steps)>>
        ELSE <<>>])

detect_json_api_auth(entries) ==
  Flatten([n \in 1..Len(entries) |->
    LET steps == json_api_steps(entries, n - 1)
    IN  IF is_json_auth_request(entries[n]) /\ Len(steps) > 1
        THEN <<AuthFlow(entries, AuthFlowType("JsonApi", FALSE), steps)>>
        ELSE <<>>])

\* every FlowStep is built (and its URL truncated) when it is matched, also
\* for an anchor whose flow is discarded afterwards
flow_steps_built(entries) ==
  Flatten([n \in 1..Len(entries) |->
    (IF is_oauth_authorize_request(entries[n])
     THEN authorization_code_steps(entries, n - 1) ELSE <<>>)
    \o (IF is_client_credentials_request(entries[n])
        THEN client_credentials_steps(entries, n - 1) ELSE <<>>)
    \o (IF is_oauth_implicit_request(entries[n])
        THEN implicit_steps(entries, n - 1) ELSE <<>>)
    \o (IF is_login_page_request(entries[n])
        THEN form_login_steps(entries, n - 1) ELSE <<>>)
    \o (IF is_json_auth_request(entries[n])
        THEN json_api_steps(entries, n - 1) ELSE <<>>)])

detect_flows_panics(entries) ==
  LET built == flow_steps_built(entries)
  IN  \E k \in 1..Len(built) :
        truncate_url_panics(EntryAt(entries, built[k].idx).request.url)

sort_by_start_time(flows) ==
  StableSort(flows, [k \in 1..Len(flows) |-> flows[k].start_time], "ascending")

\* FlowDetector::detect_flows
detect_flows(entries) ==
  sort_by_start_time(
    detect_oauth2_authorization_code(entries)
      \o detect_oauth2_client_credentials(entries)
      \o detect_oauth2_implicit(entries)
      \o detect_form_login(entries)
      \o detect_json_api_auth(entries))

(***************************************************************************)
(* saml.rs: SamlDetector                                                   *)
(***************************************************************************)
IdpWindow == 10
SamlResponseWindow == 15
AcsWindow == 5
LogoutResponseWindow == 5

is_saml_authn_request(entry) ==
  LET url_lower == ToLower(entry.request.url)
  IN  \/ Contains(url_lower, "/saml/sso")
      \/ Contains(url_lower, "/saml2/sso")
      \/ Contains(url_lower, "samlrequest=")
      \/ IsSome(PostText(entry)) /\ Contains(Unwrap(PostText(entry)), "SAMLRequest")

is_saml_response(entry) ==
  \/ Contains(ToLower(entry.request.url), "samlresponse=")
  \/ IsSome(PostText(entry)) /\ Contains(Unwrap(PostText(entry)), "SAMLResponse")

is_saml_logout_request(entry) ==
  LET url_lower == ToLower(entry.request.url)
  IN  \/ Contains(url_lower, "/saml/logout")
      \/ Contains(url_lower, "/saml2/logout")
      \/ Contains(url_lower, "samllogoutrequest=")

is_idp_interaction(entry) ==
  LET url_lower == ToLower(entry.request.url)
  IN  \/ Contains(url_lower, "/idp/")
      \/ Contains(url_lower, "/sso/")
      \/ Contains(url_lower, "/auth/")

find_idp_interaction(entries, start_idx) ==
  FindFrom(entries, start_idx, IdpWindow, is_idp_interaction)

find_saml_response(entries, start_idx) ==
  FindFrom(entries, start_idx, SamlResponseWindow, is_saml_response)

is_acs_request(entry) ==
  LET url_lower == ToLower(entry.request.url)
  IN  \/ Contains(url_lower, "/acs")
      \/ Contains(url_lower, "/saml/acs")
      \/ Contains(url_lower, "/consume")

find_acs_request(entries, start_idx) ==
  FindFrom(entries, start_idx, AcsWindow, is_acs_request)

is_logout_response(entry) ==
  Contains(ToLower(entry.request.url), "samllogoutresponse=")

find_logout_response(entries, start_idx) ==
  FindFrom(entries, start_idx, LogoutResponseWindow, is_logout_response)

\* the steps vector of build_sp_initiated_flow: the IdP interaction and the
\* SAML response are BOTH searched from start_idx + 1
sp_initiated_steps(entries, start_idx) ==
  LET idp == find_idp_interaction(entries, start_idx + 1)
      response == find_saml_response(entries, start_idx + 1)
      acs == IF IsSome(response)
             THEN find_acs_request(entries, Unwrap(response) + 1)
             ELSE None
  IN  <<Match(start_idx, "AuthnRequest", "SAML AuthnRequest sent to IdP")>>
      \o StepIf(idp, "IdpRedirect", "User authentication at IdP")
      \o StepIf(response, "SamlResponse", "SAML Response received from IdP")
      \o StepIf(acs, "AssertionConsumerService",
                "Assertion Consumer Service processed response")

idp_initiated_steps(entries, start_idx) ==
  <<Match(start_idx, "SamlResponse", "SAML Response received from IdP")>>
  \o StepIf(find_acs_request(entries, start_idx + 1), "AssertionConsumerService",
            "Assertion Consumer Service processed response")

logout_steps(entries, start_idx) ==
  <<Match(start_idx, "LogoutRequest", "SAML Logout Request")>>
  \o StepIf(find_logout_response(entries, start_idx + 1), "LogoutResponse",
            "SAML Logout Response")

\* SamlStep has the fields of FlowStep
SamlFlow(entries, flow_type, matches) ==
  LET steps == [k \in 1..Len(matches) |-> FlowStep(entries, matches[k])]
  IN  [flow_type |-> flow_type,
       start_time |-> steps[1].timestamp,
       end_time |-> Some(steps[Len(steps)].timestamp),
       steps |-> steps]

SamlSecurityIssue(message, entry_index) ==
  [severity |-> "Critical", message |-> message, entry_index |-> entry_index]

\* the issues one call of build_sp_initiated_flow pushes
sp_initiated_issues(entries, start_idx) ==
  LET response == find_saml_response(entries, start_idx + 1)
  IN  (IF StartsWith(EntryAt(entries, start_idx).request.url, "http://")
       THEN <<SamlSecurityIssue("SAML AuthnRequest sent over unencrypted HTTP",
                                start_idx)>>
       ELSE <<>>)
      \o (IF /\ IsSome(response)
             /\ StartsWith(EntryAt(entries, Unwrap(response)).request.url, "http://")
          THEN <<SamlSecurityIssue("SAML Response sent over unencrypted HTTP",
                                   Unwrap(response))>>
          ELSE <<>>)

sp_initiated_flows(entries) ==
  Flatten([n \in 1..Len(entries) |->
    LET steps == sp_initiated_steps(entries, n - 1)
    IN  IF is_saml_authn_request(entries[n]) /\ Len(steps) > 1
        THEN <<SamlFlow(entries, "SpInitiated", steps)>>
        ELSE <<>>])

is_part_of_sp_flow_never(flows, entry_idx) == FALSE

is_part_of_sp_flow(flows, entry_idx) ==
  \E f \in 1..Len(flows) :
    /\ flows[f].flow_type = "SpInitiated"
    /\ \E k \in 1..Len(flows[f].steps) : flows[f].steps[k].entry_index = entry_idx

idp_initiated_flows(entries, flows) ==
  Flatten([n \in 1..Len(entries) |->
    IF is_saml_response(entries[n]) /\ ~is_part_of_sp_flow(flows, n - 1)
    THEN <<SamlFlow(entries, "IdpInitiated", idp_initiated_steps(entries, n - 1))>>
    ELSE <<>>])

logout_flows(entries) ==
  Flatten([n \in 1..Len(entries) |->
    IF is_saml_logout_request(entries[n])
    THEN <<SamlFlow(entries, "Logout", logout_steps(entries, n - 1))>>
    ELSE <<>>])

\* SamlDetector::detect_flows, the flows
saml_detect_flows(entries) ==
  LET sp == sp_initiated_flows(entries)
  IN  sp \o idp_initiated_flows(entries, sp) \o logout_flows(entries)

\* SamlDetector::detect_flows, the security issues
saml_security_issues(entries) ==
  Flatten([n \in 1..Len(entries) |->
    IF is_saml_authn_request(entries[n])
    THEN sp_initiated_issues(entries, n - 1)
    ELSE <<>>])

saml_steps_built(entries) ==
  LET sp == sp_initiated_flows(entries)
  IN  Flatten([n \in 1..Len(entries) |->
        (IF is_saml_authn_request(entries[n])
         THEN sp_initiated_steps(entries, n - 1) ELSE <<>>)
        \o (IF is_saml_response(entries[n]) /\ ~is_part_of_sp_flow(sp, n - 1)
            THEN idp_initiated_steps(entries, n - 1) ELSE <<>>)
        \o (IF is_saml_logout_request(entries[n])
            THEN logout_steps(entries, n - 1) ELSE <<>>)])

saml_detect_flows_panics(entries) ==
  LET built == saml_steps_built(entries)
  IN  \E k \in 1..Len(built) :
        truncate_url_panics(EntryAt(entries, built[k].idx).request.url)

(***************************************************************************)
(* Base64 (base64::engine::general_purpose::STANDARD) and UTF-8 decoding.  *)
(***************************************************************************)
Base64Alphabet == UpperAlpha \o LowerAlpha \o Digits \o "+/"

Base64Value(c) == (CHOOSE i \in 1..64 : At(Base64Alphabet, i) = c) - 1

\* the byte values of the characters of Ascii: 0x20..0x5D, 0x5F, 0x61..0x7D
ByteOfRank(i) == IF i <= 62 THEN 31 + i ELSE IF i = 63 THEN 95 ELSE 33 + i

\* the character of a byte value, None for a byte outside the modelled
\* alphabet; 0xC3 and 0xA9 are the two bytes of the modelled scalar value
CharOfByte(b) ==
  IF b = 195 THEN Some("^")
  ELSE IF b = 169 THEN Some("~")
  ELSE IF \E i \in 1..Len(Ascii) : ByteOfRank(i) = b
  THEN Some(At(Ascii, CHOOSE i \in 1..Len(Ascii) : ByteOfRank(i) = b))
  ELSE None

\* the bytes of one 4-character group; pad is the number of '=' it ends with.
\* None when the discarded trailing bits are not zero.
Base64Group(g, pad) ==
  LET v == [i \in 1..(4 - pad) |-> Base64Value(At(g, i))]
      bits == IF pad = 0 THEN ((v[1] * 64 + v[2]) * 64 + v[3]) * 64 + v[4]
              ELSE IF pad = 1 THEN ((v[1] * 64 + v[2]) * 64 + v[3]) * 64
              ELSE (v[1] * 64 + v[2]) * 4096
      b1 == bits \div 65536
      b2 == (bits \div 256) % 256
      b3 == bits % 256
  IN  IF pad = 0 THEN Some(<<b1, b2, b3>>)
      ELSE IF pad = 1 THEN (IF b3 = 0 THEN Some(<<b1, b2>>) ELSE None)
      ELSE (IF b2 = 0 /\ b3 = 0 THEN Some(<<b1>>) ELSE None)

\* STANDARD.decode: canonical padding required, no trailing bits
Base64Bytes(s) ==
  LET n == Len(s) \div 4
      Quad(k) == SubSeq(s, 4 * k - 3, 4 * k)
      Padding(k) == IF k < n THEN 0
                ELSE IF SubSeq(Quad(k), 3, 4) = "==" THEN 2
                ELSE IF At(Quad(k), 4) = "=" THEN 1 ELSE 0
      Decoded(k) ==
        IF \A i \in 1..(4 - Padding(k)) : CharIn(At(Quad(k), i), Base64Alphabet)
        THEN Base64Group(Quad(k), Padding(k))
        ELSE None
  IN  IF Len(s) % 4 # 0 \/ \E k \in 1..n : ~IsSome(Decoded(k)) THEN None
      ELSE Some(Flatten([k \in 1..n |-> Unwrap(Decoded(k))]))

\* String::from_utf8: every lead byte is followed by its continuation byte.
\* A byte outside the modelled alphabet is rejected as well.
Utf8String(bytes) ==
  LET chars == [k \in 1..Len(bytes) |-> CharOfByte(bytes[k])]
      lead(k) == chars[k] = Some("^")
      cont(k) == chars[k] = Some("~")
  IN  IF /\ \A k \in 1..Len(bytes) : IsSome(chars[k])
         /\ \A k \in 1..Len(bytes) : lead(k) => k < Len(bytes) /\ cont(k + 1)
         /\ \A k \in 1..Len(bytes) : cont(k) => k > 1 /\ lead(k - 1)
      THEN Some(ConcatFrom([k \in 1..Len(bytes) |-> Unwrap(chars[k])], ""))
      ELSE None

\* str::replace for a one-byte pattern
RECURSIVE Replace(_, _, _)
Replace(s, from, to) ==
  IF Len(s) = 0 THEN ""
  ELSE IF Len(s) = 1 THEN (IF s = from THEN to ELSE s)
  ELSE Replace(SubSeq(s, 1, Len(s) \div 2), from, to)
         \o Replace(SubSeq(s, Len(s) \div 2 + 1, Len(s)), from, to)

\* JwtAnalyzer::base64_decode: Ok(String) as Some, Err as None
base64_decode(encoded) ==
  LET padded == IF Len(encoded) % 4 = 2 THEN encoded \o "=="
                ELSE IF Len(encoded) % 4 = 3 THEN encoded \o "="
                ELSE encoded
      standard == Replace(Replace(padded, "-", "+"), "_", "/")
      decoded_bytes == Base64Bytes(standard)
  IN  IF IsSome(decoded_bytes) THEN Utf8String(Unwrap(decoded_bytes)) ELSE None

(***************************************************************************)
(* serde_json::from_str into a Value, for the documents the model feeds    *)
(* it: an object whose values are strings without escapes, integers,       *)
(* true, false or null, with optional spaces between the tokens.  Every    *)
(* other text is a parse error or not an object.                           *)
(***************************************************************************)
JsonValue(kind, str, num) == [kind |-> kind, str |-> str, num |-> num]

\* a string literal at the start of s: its content and the text after it
JsonString(s) ==
  IF s = "" \/ At(s, 1) # "\"" THEN None
  ELSE LET body == Tail(s)
           close == Find(body, "\"")
       IN  IF ~IsSome(close) \/ Contains(SliceTo(body, Unwrap(close)), "\\")
           THEN None
           ELSE Some([value |-> SliceTo(body, Unwrap(close)),
                      rest |-> SliceFrom(body, Unwrap(close) + 1)])

RECURSIVE DigitRun(_)
DigitRun(s) ==
  IF s # "" /\ CharIn(At(s, 1), Digits) THEN 1 + DigitRun(Tail(s)) ELSE 0

\* a value at the start of s: the Value and the text after it
JsonScalar(s) ==
  IF s = "" THEN None
  ELSE IF At(s, 1) = "\""
  THEN LET str == JsonString(s)
       IN  IF IsSome(str)
           THEN Some([value |-> JsonValue("string", Unwrap(str).value, 0),
                      rest |-> Unwrap(str).rest])
           ELSE None
  ELSE IF StartsWith(s, "true")
  THEN Some([value |-> JsonValue("bool", "true", 0), rest |-> SliceFrom(s, 4)])
  ELSE IF StartsWith(s, "false")
  THEN Some([value |-> JsonValue("bool", "false", 0), rest |-> SliceFrom(s, 5)])
  ELSE IF StartsWith(s, "null")
  THEN Some([value |-> JsonValue("null", "", 0), rest |-> SliceFrom(s, 4)])
  ELSE LET neg == At(s, 1) = "-"
           digits == IF neg THEN Tail(s) ELSE s
           n == DigitRun(digits)
           after == SliceFrom(digits, n)
       IN  IF \/ n = 0
              \/ n > 1 /\ At(digits, 1) = "0"
              \/ after # "" /\ At(after, 1) \in {".", "e", "E"}
           THEN None
           ELSE Some([value |-> JsonValue("number", "",
                                  (IF neg THEN -1 ELSE 1) * ToInt(SliceTo(digits, n))),
                      rest |-> after])

\* the members after '{' or ',': Some(sequence of <<key, value>>) or None
RECURSIVE JsonMembers(_)
JsonMembers(s) ==
  LET key == JsonString(TrimStart(s))
      colon == IF IsSome(key) THEN TrimStart(Unwrap(key).rest) ELSE ""
      val == IF colon # "" /\ At(colon, 1) = ":"
             THEN JsonScalar(TrimStart(Tail(colon)))
             ELSE None
      after == IF IsSome(val) THEN TrimStart(Unwrap(val).rest) ELSE ""
      member == <<Unwrap(key).value, Unwrap(val).value>>
  IN  IF ~IsSome(val) \/ after = "" THEN None
      ELSE IF At(after, 1) = "}"
      THEN IF TrimStart(Tail(after)) = "" THEN Some(<<member>>) ELSE None
      ELSE IF At(after, 1) = ","
      THEN LET more == JsonMembers(Tail(after))
           IN  IF IsSome(more) THEN Some(<<member>> \o Unwrap(more)) ELSE None
      ELSE None

\* from_str(...).as_object(): the members in document order, or None
JsonObject(text) ==
  LET s == TrimStart(text)
  IN  IF s = "" \/ At(s, 1) # "{" THEN None
      ELSE IF TrimStart(Tail(s)) # "" /\ At(TrimStart(Tail(s)), 1) = "}"
      THEN IF TrimStart(Tail(TrimStart(Tail(s)))) = "" THEN Some(<<>>) ELSE None
      ELSE JsonMembers(Tail(s))

\* Map::get: a repeated key keeps its last value
JsonGet(obj, key) ==
  LET hits == {k \in 1..Len(obj) : obj[k][1] = key}
  IN  IF hits = {} THEN None
      ELSE Some(obj[CHOOSE k \in hits : \A j \in hits : j <= k][2])

\* obj.get(key).and_then(|v| v.as_str())
GetStr(obj, key) ==
  LET v == JsonGet(obj, key)
  IN  IF IsSome(v) /\ Unwrap(v).kind = "string" THEN Some(Unwrap(v).str) ELSE None

\* obj.get(key).and_then(|v| v.as_i64())
GetI64(obj, key) ==
  LET v == JsonGet(obj, key)
  IN  IF IsSome(v) /\ Unwrap(v).kind = "number" THEN Some(Unwrap(v).num) ELSE None

\* the members whose key is not one of the known fields, as a map
OtherFields(obj, known) ==
  {<<key, Unwrap(JsonGet(obj, key))>> :
     key \in {obj[k][1] : k \in 1..Len(obj)} \ known}

(***************************************************************************)
(* jwt.rs: JwtAnalyzer                                                     *)
(***************************************************************************)
JwtKeyLen == 20
TokenMaxLen == 50
TokenKeepLen == 25

JwtSecurityIssue(severity, issue_type, message, token_preview) ==
  [severity |-> severity, issue_type |-> issue_type, message |-> message,
   token_preview |-> token_preview]

jwt_extract_bearer_token(header_value) ==
  LET rest == StripPrefix(header_value, "Bearer ")
  IN  IF IsSome(rest) THEN Some(Trim(Unwrap(rest))) ELSE None

\* parts.len() == 3 && parts.iter().all(|p| !p.is_empty() || parts[2].is_empty())
jwt_is_jwt(token) ==
  LET parts == Split(token, ".")
  IN  Len(parts) = 3 /\ \A i \in 1..Len(parts) : parts[i] # "" \/ parts[3] = ""

\* &token[..25] and &token[token.len() - 25..] are byte slices
truncate_token_panics(token) ==
  /\ Len(token) > TokenMaxLen
  /\ ~SliceToOk(token, TokenKeepLen) \/ ~IsCharBoundary(token, Len(token) - TokenKeepLen)

truncate_token(token) ==
  IF Len(token) > TokenMaxLen
  THEN SliceTo(token, TokenKeepLen) \o "..." \o SliceFrom(token, Len(token) - TokenKeepLen)
  ELSE token

\* Ok(JwtHeader) as Some, Err as None
parse_jwt_header(encoded) ==
  AndThen(base64_decode(encoded), LAMBDA decoded :
    AndThen(JsonObject(decoded), LAMBDA obj :
      Some([alg |-> GetStr(obj, "alg"),
            typ |-> GetStr(obj, "typ"),
            kid |-> GetStr(obj, "kid"),
            other |-> OtherFields(obj, {"alg", "typ", "kid"})])))

parse_jwt_claims(encoded) ==
  AndThen(base64_decode(encoded), LAMBDA decoded :
    AndThen(JsonObject(decoded), LAMBDA obj :
      Some([iss |-> GetStr(obj, "iss"),
            sub |-> GetStr(obj, "sub"),
            aud |-> GetStr(obj, "aud"),
            exp |-> GetI64(obj, "exp"),
            nbf |-> GetI64(obj, "nbf"),
            iat |-> GetI64(obj, "iat"),
            jti |-> GetStr(obj, "jti"),
            other |-> OtherFields(obj,
                        {"iss", "sub", "aud", "exp", "nbf", "iat", "jti"})])))

\* Ok(JwtToken) as Some, Err as None; truncate_token is reached only when
\* header and claims have parsed
parse_jwt(token, timestamp) ==
  Bind(Split(token, "."), LAMBDA parts :
    IF Len(parts) # 3 THEN None
    ELSE AndThen(parse_jwt_header(parts[1]), LAMBDA header :
           AndThen(parse_jwt_claims(parts[2]), LAMBDA claims :
             Some([raw_token |-> truncate_token(token),
                   header |-> header,
                   claims |-> claims,
                   signature_present |-> parts[3] # "",
                   first_seen |-> timestamp,
                   last_seen |-> timestamp,
                   usage_count |-> 1,
                   entry_indices |-> <<>>]))))

LongLifetimeSeconds == 86400

analyze_token_security(token, in_url) ==
  LET alg_lower == ToLower(Unwrap(token.header.alg))
      lifetime == Unwrap(token.claims.exp) - Unwrap(token.claims.iat)
  IN  (IF IsSome(token.header.alg) /\ alg_lower = "none"
       THEN <<JwtSecurityIssue("Critical", "NoAlgorithm",
                "JWT using 'none' algorithm (no signature verification)",
                token.raw_token)>>
       ELSE IF IsSome(token.header.alg) /\ alg_lower \in {"hs256", "hs384", "hs512"}
       THEN <<JwtSecurityIssue("Info", "WeakAlgorithm",
                "JWT using symmetric algorithm " \o Unwrap(token.header.alg)
                  \o " (shared secret)",
                token.raw_token)>>
       ELSE <<>>)
      \o (IF IsSome(token.claims.exp) /\ IsSome(token.claims.iat)
          THEN IF lifetime > LongLifetimeSeconds
               THEN <<JwtSecurityIssue("Warning", "LongLivedToken",
                        "JWT has long lifetime: " \o ToString(lifetime \div 3600)
                          \o " hours",
                        token.raw_token)>>
               ELSE <<>>
          ELSE IF ~IsSome(token.claims.exp)
          THEN <<JwtSecurityIssue("Warning", "MissingExpiration",
                   "JWT missing expiration claim (exp)", token.raw_token)>>
          ELSE <<>>)
      \o (IF ~token.signature_present
          THEN <<JwtSecurityIssue("Critical", "MissingSignature",
                   "JWT missing signature component", token.raw_token)>>
          ELSE <<>>)
      \o (IF in_url
          THEN <<JwtSecurityIssue("Critical", "TokenInUrl",
                   "JWT token transmitted in URL (visible in logs)",
                   token.raw_token)>>
          ELSE <<>>)

\* the string extract_tokens_from_json takes for one field, None if the
\* field, its colon or the two quotes are not found
json_field_token(json_text, field) ==
  LET start == Find(json_text, "\"" \o field \o "\"")
      colon == IF IsSome(start)
               THEN Find(SliceFrom(json_text, Unwrap(start)), ":")
               ELSE None
      after_colon == SliceFrom(json_text, Unwrap(start) + Unwrap(colon) + 1)
      quote_start == IF IsSome(colon) THEN Find(after_colon, "\"") ELSE None
      quote_end == IF IsSome(quote_start)
                   THEN Find(SliceFrom(after_colon, Unwrap(quote_start) + 1), "\"")
                   ELSE None
  IN  IF IsSome(quote_end)
      THEN Some(SubSeq(after_colon, Unwrap(quote_start) + 2,
                       Unwrap(quote_start) + 1 + Unwrap(quote_end)))
      ELSE None

JsonTokenFields == <<"token", "access_token", "accessToken", "id_token", "idToken">>

\* the calls of process_jwt_token and the URL check for entry idx, in order
jwt_entry_ops(entry, idx) ==
  Flatten([j \in 1..Len(entry.request.headers) |->
    LET header == entry.request.headers[j]
        token == jwt_extract_bearer_token(header.value)
    IN  IF /\ ToLower(header.name) = "authorization"
           /\ IsSome(token)
           /\ jwt_is_jwt(Unwrap(token))
        THEN <<[op |-> "token", token |-> Unwrap(token), idx |-> idx]>>
        ELSE <<>>])
  \o (IF /\ IsSome(entry.response.content.text)
         /\ Contains(entry.response.content.mime_type, "application/json")
      THEN Flatten([f \in 1..Len(JsonTokenFields) |->
             LET token == json_field_token(Unwrap(entry.response.content.text),
                                           JsonTokenFields[f])
             IN  IF IsSome(token) /\ jwt_is_jwt(Unwrap(token))
                 THEN <<[op |-> "token", token |-> Unwrap(token), idx |-> idx]>>
                 ELSE <<>>])
      ELSE <<>>)
  \o (IF Contains(entry.request.url, "Bearer%20") \/ Contains(entry.request.url, "eyJ")
      THEN <<[op |-> "url", token |-> "", idx |-> idx]>>
      ELSE <<>>)

jwt_ops(entries) ==
  Flatten([n \in 1..Len(entries) |-> jwt_entry_ops(entries[n], n - 1)])

\* tokens_map as the list of its bindings in insertion order
JwtState(map, issues, panicked) ==
  [map |-> map, issues |-> issues, panicked |-> panicked]

process_jwt_token_reparses(state, token, entry_idx, timestamp) ==
  LET token_key == IF Len(token) > JwtKeyLen THEN SliceTo(token, JwtKeyLen) ELSE token
      known == {k \in 1..Len(state.map) : state.map[k].key = token_key}
  IN  IF Len(token) > JwtKeyLen /\ ~SliceToOk(token, JwtKeyLen)
      THEN JwtState(state.map, state.issues, TRUE)
      ELSE Bind(parse_jwt(token, timestamp), LAMBDA parsed :
             IF ~IsSome(parsed) THEN state
             ELSE IF truncate_token_panics(token)
             THEN JwtState(state.map, state.issues, TRUE)
             ELSE IF known # {}
             THEN JwtState(
                    [k \in 1..Len(state.map) |->
                       IF k \in known
                       THEN [key |-> token_key,
                             token |-> [Unwrap(parsed) EXCEPT
                                          !.first_seen = state.map[k].token.first_seen],
                             indices |-> Append(state.map[k].indices, entry_idx)]
                       ELSE state.map[k]],
                    state.issues \o analyze_token_security(Unwrap(parsed), FALSE),
                    FALSE)
             ELSE JwtState(
                    Append(state.map,
                           [key |-> token_key, token |-> Unwrap(parsed),
                            indices |-> <<entry_idx>>]),
                    state.issues \o analyze_token_security(Unwrap(parsed), FALSE),
                    FALSE))

\* process_jwt_token(token, entry_idx, timestamp, false, ...)
process_jwt_token(state, token, entry_idx, timestamp) ==
  IF Len(token) > JwtKeyLen /\ ~SliceToOk(token, JwtKeyLen)
  THEN JwtState(state.map, state.issues, TRUE)
  ELSE LET token_key == IF Len(token) > JwtKeyLen THEN SliceTo(token, JwtKeyLen)
                        ELSE token
           known == {k \in 1..Len(state.map) : state.map[k].key = token_key}
       IN  IF known # {}
           THEN JwtState(
                  [k \in 1..Len(state.map) |->
                     IF k \in known
                     THEN [key |-> token_key,
                           token |-> [state.map[k].token EXCEPT !.last_seen = timestamp],
                           indices |-> Append(state.map[k].indices, entry_idx)]
                     ELSE state.map[k]],
                  state.issues, FALSE)
           ELSE Bind(parse_jwt(token, timestamp), LAMBDA parsed :
                  IF ~IsSome(parsed) THEN state
                  ELSE IF truncate_token_panics(token)
                  THEN JwtState(state.map, state.issues, TRUE)
                  ELSE JwtState(
                         Append(state.map,
                                [key |-> token_key, token |-> Unwrap(parsed),
                                 indices |-> <<entry_idx>>]),
                         state.issues
                           \o analyze_token_security(Unwrap(parsed), FALSE),
                         FALSE))

\* the loop of JwtAnalyzer::analyze over the remaining operations
RECURSIVE jwt_scan(_, _, _)
jwt_scan(entries, ops, state) ==
  IF ops = <<>> \/ state.panicked THEN state
  ELSE LET o == Head(ops)
           entry == EntryAt(entries, o.idx)
       IN  jwt_scan(entries, Tail(ops),
             IF o.op = "token"
             THEN process_jwt_token(state, o.token, o.idx, entry.started_date_time)
             ELSE IF truncate_url_panics(entry.request.url)
             THEN JwtState(state.map, state.issues, TRUE)
             ELSE JwtState(state.map,
                    Append(state.issues,
                      JwtSecurityIssue("Critical", "TokenInUrl",
                        "JWT token found in URL at entry " \o ToString(o.idx),
                        truncate_url(entry.request.url))),
                    FALSE))

jwt_final(entries) == jwt_scan(entries, jwt_ops(entries), JwtState(<<>>, <<>>, FALSE))

jwt_result_count_kept(final, seed) ==
  LET map == final.map
      order == HashIter({map[k].key : k \in 1..Len(map)}, seed)
  IN  [panicked |-> final.panicked,
       tokens |-> [i \in 1..Len(order) |->
                     LET b == map[CHOOSE k \in 1..Len(map) : map[k].key = order[i]]
                     IN  [b.token EXCEPT !.entry_indices = b.indices]],
       issues |-> final.issues]

\* tokens_map.into_iter().map(...).collect() and the issues, of a finished
\* scan
jwt_result(final, seed) ==
  LET map == final.map
      order == HashIter({map[k].key : k \in 1..Len(map)}, seed)
  IN  [panicked |-> final.panicked,
       tokens |-> [i \in 1..Len(order) |->
                     LET b == map[CHOOSE k \in 1..Len(map) : map[k].key = order[i]]
                     IN  [b.token EXCEPT !.entry_indices = b.indices,
                                         !.usage_count = Len(b.indices)]],
       issues |-> final.issues]

\* JwtAnalyzer::analyze
jwt_analyze(entries, seed) == jwt_result(jwt_final(entries), seed)

(***************************************************************************)
(* advanced_security.rs: AdvancedSecurityAnalyzer                          *)
(***************************************************************************)
LocationMaxLen == 100
LocationKeepLen == 97

\* AdvancedSecurityAnalyzer::truncate_url: &url[..97] is a byte slice
truncate_location_panics(url) ==
  Len(url) > LocationMaxLen /\ ~SliceToOk(url, LocationKeepLen)

truncate_location(url) ==
  IF Len(url) > LocationMaxLen THEN SliceTo(url, LocationKeepLen) \o "..." ELSE url

has_token_in_url(url) ==
  LET url_lower == ToLower(url)
  IN  \/ Contains(url_lower, "token=")
      \/ Contains(url_lower, "access_token=")
      \/ Contains(url_lower, "auth_token=")
      \/ Contains(url_lower, "bearer%20")
      \/ Contains(url, "eyJ")

has_credentials_in_query(url) ==
  LET url_lower == ToLower(url)
  IN  /\ \/ Contains(url_lower, "username=")
         \/ Contains(url_lower, "user=")
         \/ Contains(url_lower, "email=")
      /\ Contains(url_lower, "password=")

has_sensitive_data_in_url(url) ==
  LET url_lower == ToLower(url)
  IN  \/ Contains(url_lower, "api_key=")
      \/ Contains(url_lower, "apikey=")
      \/ Contains(url_lower, "secret=")
      \/ Contains(url_lower, "key=")

TokenExposure(severity, exposure_type, location, entry_index, message) ==
  [severity |-> severity, exposure_type |-> exposure_type,
   location |-> location, entry_index |-> entry_index, message |-> message]

\* the strings one entry passes to truncate_url, in order
exposure_locations(entry) ==
  LET url == entry.request.url
  IN  (IF has_token_in_url(url) THEN <<url>> ELSE <<>>)
      \o (IF has_credentials_in_query(url) THEN <<url>> ELSE <<>>)
      \o (IF has_sensitive_data_in_url(url) THEN <<url>> ELSE <<>>)
      \o Flatten([j \in 1..Len(entry.request.headers) |->
           IF /\ ToLower(entry.request.headers[j].name) = "referer"
              /\ has_token_in_url(entry.request.headers[j].value)
           THEN <<entry.request.headers[j].value>>
           ELSE <<>>])

detect_token_exposures_panics(entries) ==
  \E n \in 1..Len(entries) :
    LET locations == exposure_locations(entries[n])
    IN  \E k \in 1..Len(locations) : truncate_location_panics(locations[k])

entry_exposures(entry, idx) ==
  LET url == entry.request.url
  IN  (IF has_token_in_url(url)
       THEN <<TokenExposure("Critical", "TokenInUrl", truncate_location(url), idx,
                "Authentication token found in URL (will be logged)")>>
       ELSE <<>>)
      \o (IF has_credentials_in_query(url)
          THEN <<TokenExposure("Critical", "CredentialsInUrl", truncate_location(url),
                   idx, "Credentials (username/password) found in URL")>>
          ELSE <<>>)
      \o (IF has_sensitive_data_in_url(url)
          THEN <<TokenExposure("Warning", "SensitiveDataInUrl", truncate_location(url),
                   idx, "Potentially sensitive data in URL")>>
          ELSE <<>>)
      \o Flatten([j \in 1..Len(entry.request.headers) |->
           IF /\ ToLower(entry.request.headers[j].name) = "referer"
              /\ has_token_in_url(entry.request.headers[j].value)
           THEN <<TokenExposure("Warning", "TokenInReferer",
                    truncate_location(entry.request.headers[j].value), idx,
                    "Token leaked in Referer header")>>
           ELSE <<>>])

detect_token_exposures(entries) ==
  Flatten([n \in 1..Len(entries) |-> entry_exposures(entries[n], n - 1)])

CorsIssue(severity, issue_type, origin, entry_index, message) ==
  [severity |-> severity, issue_type |-> issue_type, origin |-> origin,
   entry_index |-> entry_index, message |-> message]

is_cors_request(entry) ==
  \E j \in 1..Len(entry.request.headers) :
    ToLower(entry.request.headers[j].name) = "origin"

\* the value of the last response header of that (lowercased) name
LastHeader(headers, name_lower) ==
  LET hits == {j \in 1..Len(headers) : ToLower(headers[j].name) = name_lower}
  IN  IF hits = {} THEN None
      ELSE Some(headers[CHOOSE j \in hits : \A k \in hits : k <= j].value)

entry_cors_issues(entry, idx) ==
  LET headers == entry.response.headers
      cors_origin == LastHeader(headers, "access-control-allow-origin")
      credentials == LastHeader(headers, "access-control-allow-credentials")
      allows_credentials == IsSome(credentials) /\ ToLower(Unwrap(credentials)) = "true"
  IN  Flatten([j \in 1..Len(headers) |->
        IF /\ ToLower(headers[j].name) = "access-control-allow-origin"
           /\ headers[j].value # "*"
           /\ StartsWith(headers[j].value, "http://")
        THEN <<CorsIssue("Warning", "InsecureOrigin", headers[j].value, idx,
                 "CORS allows insecure HTTP origin")>>
        ELSE <<>>])
      \o (IF cors_origin = Some("*") /\ allows_credentials
          THEN <<CorsIssue("Critical", "WildcardWithCredentials", "*", idx,
                   "CORS wildcard (*) used with credentials (security risk)")>>
          ELSE <<>>)
      \o (IF is_cors_request(entry) /\ cors_origin = None
          THEN <<CorsIssue("Info", "MissingCorsHeaders", "unknown", idx,
                   "Cross-origin request without CORS headers")>>
          ELSE <<>>)

analyze_cors(entries) ==
  Flatten([n \in 1..Len(entries) |-> entry_cors_issues(entries[n], n - 1)])

\* policy is Option<String>
CspFinding(severity, finding_type, entry_index, message, policy) ==
  [severity |-> severity, finding_type |-> finding_type,
   entry_index |-> entry_index, message |-> message, policy |-> policy]

is_csp_header(header) ==
  ToLower(header.name) \in
    {"content-security-policy", "content-security-policy-report-only"}

is_html_response(entry) == Contains(entry.response.content.mime_type, "text/html")

header_csp_findings(header, idx) ==
  LET policy_lower == ToLower(header.value)
  IN  (IF Contains(policy_lower, "'unsafe-inline'")
       THEN <<CspFinding("Warning", "UnsafeInline", idx,
                "CSP allows 'unsafe-inline' (XSS risk)", Some(header.value))>>
       ELSE <<>>)
      \o (IF Contains(policy_lower, "'unsafe-eval'")
          THEN <<CspFinding("Warning", "UnsafeEval", idx,
                   "CSP allows 'unsafe-eval' (code injection risk)",
                   Some(header.value))>>
          ELSE <<>>)
      \o (IF Contains(policy_lower, "*") /\ ~Contains(policy_lower, "data:")
          THEN <<CspFinding("Warning", "WildcardSource", idx,
                   "CSP uses wildcard source (overly permissive)",
                   Some(header.value))>>
          ELSE <<>>)

entry_csp_findings(entry, idx) ==
  IF ~is_html_response(entry) THEN <<>>
  ELSE Flatten([j \in 1..Len(entry.response.headers) |->
         IF is_csp_header(entry.response.headers[j])
         THEN header_csp_findings(entry.response.headers[j], idx)
         ELSE <<>>])

analyze_csp(entries) ==
  LET html_responses_without_csp ==
        Cardinality({n \in 1..Len(entries) :
          /\ is_html_response(entries[n])
          /\ ~\E j \in 1..Len(entries[n].response.headers) :
                is_csp_header(entries[n].response.headers[j])})
  IN  Flatten([n \in 1..Len(entries) |-> entry_csp_findings(entries[n], n - 1)])
      \o (IF html_responses_without_csp > 0
          THEN <<CspFinding("Info", "MissingCsp", 0,
                   ToString(html_responses_without_csp)
                     \o " HTML response(s) without Content-Security-Policy header",
                   None)>>
          ELSE <<>>)

advanced_is_token_refresh_request(entry) ==
  /\ entry.request.method = "POST"
  /\ \/ Contains(ToLower(entry.request.url), "/token")
     \/ Contains(ToLower(entry.request.url), "/refresh")
  /\ IsSome(PostText(entry))
  /\ \/ Contains(Unwrap(PostText(entry)), "grant_type=refresh_token")
     \/ Contains(Unwrap(PostText(entry)), "\"refresh_token\"")
     \/ Contains(Unwrap(PostText(entry)), "refreshToken")

\* the increasing enumeration of a set of entry indices
RECURSIVE Ascending(_)
Ascending(S) ==
  IF S = {} THEN <<>>
  ELSE LET m == CHOOSE i \in S : \A j \in S : i <= j
       IN  <<m>> \o Ascending(S \ {m})

RefreshPatternMin == 1
AutomaticRotationMin == 3

analyze_refresh_patterns(entries) ==
  LET refresh_requests ==
        Ascending({i \in Indices(entries) :
                     advanced_is_token_refresh_request(EntryAt(entries, i))})
  IN  IF Len(refresh_requests) > RefreshPatternMin
      THEN <<[pattern_type |-> IF Len(refresh_requests) >= AutomaticRotationMin
                               THEN "AutomaticRotation" ELSE "OnDemandRefresh",
              frequency |-> Len(refresh_requests),
              token_lifetime |-> None,
              refresh_count |-> Len(refresh_requests),
              entry_indices |-> refresh_requests,
              description |-> "Token refreshed " \o ToString(Len(refresh_requests))
                                \o " times during session"]>>
      ELSE <<>>

\* AdvancedSecurityAnalyzer::analyze
advanced_analyze(entries) ==
  [token_exposures |-> detect_token_exposures(entries),
   cors_issues |-> analyze_cors(entries),
   csp_findings |-> analyze_csp(entries),
   refresh_patterns |-> analyze_refresh_patterns(entries)]

(***************************************************************************)
(* events.rs: EventDetector                                                *)
(***************************************************************************)
is_login_attempt(entry) ==
  LET url_lower == ToLower(entry.request.url)
      text == Unwrap(PostText(entry))
  IN  /\ entry.request.method = "POST"
      /\ \/ Contains(url_lower, "/login")
         \/ Contains(url_lower, "/signin")
         \/ Contains(url_lower, "/auth/login")
         \/ Contains(url_lower, "/api/auth")
         \/ Contains(url_lower, "/authenticate")
      \* with a body text the credentials test returns; the password grant
      \* test comes after it and asks for a body text again
      /\ IF IsSome(PostText(entry))
         THEN /\ \/ Contains(text, "username")
                 \/ Contains(text, "email")
                 \/ Contains(text, "\"user\"")
              /\ Contains(text, "password")
         ELSE /\ Contains(url_lower, "/token") \/ Contains(url_lower, "/oauth/token")
              /\ IsSome(PostText(entry))
              /\ Contains(text, "grant_type=password")

is_successful_login_redirect(entry) ==
  \/ /\ entry.response.status \in {200, 201}
     /\ \/ \E j \in 1..Len(entry.response.cookies) :
             flows_is_session_cookie(entry.response.cookies[j].name)
        \/ has_json_token_response(entry)
  \/ entry.response.status >= 300 /\ entry.response.status < 400

is_successful_login(entry) ==
  /\ entry.response.status \in {200, 201}
  /\ \/ \E j \in 1..Len(entry.response.cookies) :
          flows_is_session_cookie(entry.response.cookies[j].name)
     \/ has_json_token_response(entry)
     \/ entry.response.status >= 300 /\ entry.response.status < 400

is_logout_request(entry) ==
  LET url_lower == ToLower(entry.request.url)
  IN  /\ Contains(url_lower, "/logout") \/ Contains(url_lower, "/signout")
      /\ entry.request.method \in {"GET", "POST"}

is_token_refresh_request(entry) ==
  /\ entry.request.method = "POST"
  /\ \/ Contains(ToLower(entry.request.url), "/token")
     \/ Contains(ToLower(entry.request.url), "/refresh")
  /\ IsSome(PostText(entry))
  /\ \/ Contains(Unwrap(PostText(entry)), "grant_type=refresh_token")
     \/ Contains(Unwrap(PostText(entry)), "\"refresh_token\"")
     \/ Contains(Unwrap(PostText(entry)), "refreshToken")

is_session_expired_response_any_body(entry) ==
  /\ entry.response.status = 401
  /\ \E j \in 1..Len(entry.request.headers) :
       ToLower(entry.request.headers[j].name) \in {"authorization", "cookie"}

is_session_expired_response(entry) ==
  /\ entry.response.status = 401
  /\ \E j \in 1..Len(entry.request.headers) :
       ToLower(entry.request.headers[j].name) \in {"authorization", "cookie"}
  /\ IsSome(entry.response.content.text) =>
       LET text_lower == ToLower(Unwrap(entry.response.content.text))
       IN  \/ Contains(text_lower, "expired")
           \/ Contains(text_lower, "invalid")
           \/ Contains(text_lower, "unauthorized")

is_password_reset_request(entry) ==
  LET url_lower == ToLower(entry.request.url)
  IN  /\ Contains(url_lower, "/reset") \/ Contains(url_lower, "/forgot")
      /\ Contains(url_lower, "password") \/ Contains(url_lower, "pwd")
      /\ entry.request.method = "POST"

detect_credential_type(entry) ==
  LET text == Unwrap(PostText(entry))
  IN  IF ~IsSome(PostText(entry)) THEN None
      ELSE IF Contains(text, "username") THEN Some("username_password")
      ELSE IF Contains(text, "email") THEN Some("email_password")
      ELSE IF Contains(text, "grant_type=password") THEN Some("oauth_password")
      ELSE None

\* the "error" field, else the "message" field, of a JSON body, by scanning
extract_error_message(entry) ==
  LET text == Unwrap(entry.response.content.text)
  IN  IF /\ IsSome(entry.response.content.text)
         /\ Contains(entry.response.content.mime_type, "application/json")
      THEN IF IsSome(json_field_token(text, "error"))
           THEN json_field_token(text, "error")
           ELSE json_field_token(text, "message")
      ELSE None

AuthEvent(event_type, entry, idx, description, credential_type, error_message) ==
  [event_type |-> event_type,
   timestamp |-> entry.started_date_time,
   entry_index |-> idx,
   method |-> entry.request.method,
   url |-> truncate_url(entry.request.url),
   status |-> entry.response.status,
   details |-> [description |-> description,
                credential_type |-> credential_type,
                error_message |-> error_message]]

login_event(entry, idx) ==
  IF is_successful_login(entry)
  THEN AuthEvent("LoginSuccess", entry, idx, "User successfully authenticated",
                 detect_credential_type(entry), None)
  ELSE AuthEvent("LoginFailure", entry, idx, "Login attempt failed",
                 detect_credential_type(entry), extract_error_message(entry))

token_refresh_event(entry, idx) ==
  IF entry.response.status = 200
  THEN AuthEvent("TokenRefresh", entry, idx, "Access token refreshed successfully",
                 Some("refresh_token"), None)
  ELSE AuthEvent("TokenRefresh", entry, idx, "Token refresh failed",
                 Some("refresh_token"), extract_error_message(entry))

\* the events of one detect_*_events pass
EventsWhere(entries, Matches(_), Event(_, _)) ==
  Flatten([n \in 1..Len(entries) |->
    IF Matches(entries[n]) THEN <<Event(entries[n], n - 1)>> ELSE <<>>])

detect_login_events(entries) == EventsWhere(entries, is_login_attempt, login_event)

detect_logout_events(entries) ==
  LET Event(entry, idx) == AuthEvent("Logout", entry, idx, "User logged out", None, None)
  IN  EventsWhere(entries, is_logout_request, Event)

detect_token_refresh_events(entries) ==
  EventsWhere(entries, is_token_refresh_request, token_refresh_event)

detect_session_expiration_events(entries) ==
  LET Event(entry, idx) ==
        AuthEvent("SessionExpired", entry, idx, "Session expired or invalid", None,
                  extract_error_message(entry))
  IN  EventsWhere(entries, is_session_expired_response, Event)

detect_password_reset_events(entries) ==
  LET Event(entry, idx) ==
        AuthEvent("PasswordReset", entry, idx, "Password reset request", None, None)
  IN  EventsWhere(entries, is_password_reset_request, Event)

is_event_entry(entry) ==
  \/ is_login_attempt(entry)
  \/ is_logout_request(entry)
  \/ is_token_refresh_request(entry)
  \/ is_session_expired_response(entry)
  \/ is_password_reset_request(entry)

\* every event truncates the URL of its entry
detect_events_panics(entries) ==
  \E n \in 1..Len(entries) :
    is_event_entry(entries[n]) /\ truncate_url_panics(entries[n].request.url)

\* EventDetector::detect_events
detect_events(entries) ==
  LET events == detect_login_events(entries)
                  \o detect_logout_events(entries)
                  \o detect_token_refresh_events(entries)
                  \o detect_session_expiration_events(entries)
                  \o detect_password_reset_events(entries)
  IN  StableSort(events, [k \in 1..Len(events) |-> events[k].timestamp], "ascending")

(***************************************************************************)
(* analyzer.rs: AuthAnalyzer                                               *)
(***************************************************************************)
\* a byte slice off a char boundary in one of the detectors aborts analyze
\* (the slices of JwtAnalyzer are reported by jwt_analyze)
analyze_panics(entries) ==
  \/ track_sessions_panics(entries)
  \/ detect_flows_panics(entries)
  \/ detect_events_panics(entries)
  \/ saml_detect_flows_panics(entries)
  \/ detect_token_exposures_panics(entries)

\* AuthAnalysis; outcome is "Ok" for a returned value, "Panic" for an abort
AuthAnalysis(outcome, methods, sessions, flows, events, security_notes, tokens, issues, saml_flows, saml_issues, advanced_security) ==
  [outcome |-> outcome, methods |-> methods, sessions |-> sessions,
   flows |-> flows, events |-> events, security_notes |-> security_notes,
   jwt_tokens |-> tokens, jwt_issues |-> issues, saml_flows |-> saml_flows,
   saml_security_issues |-> saml_issues,
   advanced_security |-> advanced_security]

NoAdvancedSecurity ==
  [token_exposures |-> <<>>, cors_issues |-> <<>>, csp_findings |-> <<>>,
   refresh_patterns |-> <<>>]

NoAnalysis(outcome) ==
  AuthAnalysis(outcome, <<>>, <<>>, <<>>, <<>>, <<>>, <<>>, <<>>, <<>>, <<>>,
               NoAdvancedSecurity)

\* AuthAnalyzer::analyze; seed is the iteration order of this run's hash
\* containers
analyze(entries, seed) ==
  Bind(jwt_analyze(entries, seed), LAMBDA jwt :
    IF analyze_panics(entries) \/ jwt.panicked THEN NoAnalysis("Panic")
    ELSE Bind(detect(entries, seed), LAMBDA methods :
         Bind(track_sessions(entries, seed), LAMBDA sessions :
           AuthAnalysis("Ok", methods, sessions,
                        detect_flows(entries),
                        detect_events(entries),
                        security_analyze(entries, methods, sessions),
                        jwt.tokens,
                        jwt.issues,
                        saml_detect_flows(entries),
                        saml_security_issues(entries),
                        advanced_analyze(entries)))))

(***************************************************************************)
(* summary.rs: AuthSummaryGenerator                                        *)
(***************************************************************************)
AuthMethodSummary(method_type, description, confidence) ==
  [method_type |-> method_type, description |-> description,
   confidence |-> confidence]

\* AuthFlowType::as_str
flow_type_as_str(flow_type) ==
  IF flow_type.type = "OAuth2AuthorizationCode"
  THEN IF flow_type.pkce THEN "OAuth 2.0 Authorization Code (with PKCE)"
       ELSE "OAuth 2.0 Authorization Code"
  ELSE IF flow_type.type = "OAuth2ClientCredentials" THEN "OAuth 2.0 Client Credentials"
  ELSE IF flow_type.type = "OAuth2Implicit" THEN "OAuth 2.0 Implicit"
  ELSE IF flow_type.type = "FormBased" THEN "Form-based Login"
  ELSE IF flow_type.type = "JsonApi" THEN "JSON API Authentication"
  ELSE "Unknown"

is_oauth_flow(flow) ==
  flow.flow_type.type \in
    {"OAuth2AuthorizationCode", "OAuth2ClientCredentials", "OAuth2Implicit"}

determine_primary_method(a) ==
  LET oauth == SelectSeq(a.flows, is_oauth_flow)
      first_alg == a.jwt_tokens[1].header.alg
      session_type == a.sessions[1].session_type
  IN  IF oauth # <<>>
      THEN AuthMethodSummary(
             IF oauth[1].flow_type.type = "OAuth2AuthorizationCode"
                  /\ oauth[1].flow_type.pkce
             THEN "OAuth 2.0 Authorization Code with PKCE"
             ELSE flow_type_as_str(oauth[1].flow_type),
             "OAuth 2.0 flow detected with token-based authentication", "High")
      ELSE IF a.saml_flows # <<>>
      THEN AuthMethodSummary("SAML SSO",
             ToString(Len(a.saml_flows)) \o " SAML flow(s) detected", "High")
      ELSE IF a.jwt_tokens # <<>>
      THEN AuthMethodSummary("JWT Bearer Token",
             "JWT tokens in Authorization header (algorithm: "
               \o (IF IsSome(first_alg) THEN Unwrap(first_alg) ELSE "unknown")
               \o ")", "High")
      ELSE IF a.sessions # <<>>
      THEN IF session_type.type = "Cookie"
           THEN AuthMethodSummary("Cookie-Based Session",
                  "Session cookie: " \o session_type.name, "High")
           ELSE IF session_type.type = "BearerToken"
           THEN AuthMethodSummary(
                  IF session_type.is_jwt THEN "JWT Bearer Token" ELSE "Bearer Token",
                  "Token-based authentication in Authorization header", "High")
           ELSE AuthMethodSummary("API Key",
                  "API key in " \o session_type.name \o " header", "High")
      ELSE IF \E k \in 1..Len(a.flows) : a.flows[k].flow_type.type = "FormBased"
      THEN AuthMethodSummary("Form-Based Login",
             "Traditional form-based authentication flow detected", "Medium")
      ELSE IF \E k \in 1..Len(a.flows) : a.flows[k].flow_type.type = "JsonApi"
      THEN AuthMethodSummary("JSON API Authentication",
             "JSON-based authentication endpoint detected", "Medium")
      ELSE IF \E k \in 1..Len(a.methods) : a.methods[k].tag = "Basic"
      THEN AuthMethodSummary("HTTP Basic Authentication",
             "Username and password in Authorization header", "High")
      ELSE IF a.methods # <<>>
      THEN AuthMethodSummary("Unknown Authentication",
             ToString(Len(a.methods))
               \o " authentication method(s) detected but type unclear", "Low")
      ELSE AuthMethodSummary("None Detected",
             "No clear authentication mechanism found in HAR file", "Low")

SessionMechanismSummary(mechanism_type, details) ==
  [mechanism_type |-> mechanism_type, details |-> details]

determine_session_mechanism(a) ==
  LET claims == a.jwt_tokens[1].claims
      cookies == SelectSeq(a.sessions, LAMBDA s : s.session_type.type = "Cookie")
  IN  IF a.jwt_tokens # <<>>
      THEN SessionMechanismSummary("Stateless (JWT)",
             "JWT tokens with "
               \o ToString(IF IsSome(claims.exp) /\ IsSome(claims.iat)
                           THEN Unwrap(claims.exp) - Unwrap(claims.iat) ELSE 0)
               \o "-second lifetime")
      ELSE IF cookies # <<>>
      THEN SessionMechanismSummary("Stateful (Server-Side Sessions)",
             "Session cookie: " \o cookies[1].session_type.name \o " ("
               \o ToString(cookies[1].request_count) \o " requests)")
      ELSE IF \E k \in 1..Len(a.sessions) :
                a.sessions[k].session_type.type = "BearerToken"
      THEN SessionMechanismSummary("Token-Based",
             "Bearer tokens in Authorization header")
      ELSE IF \E k \in 1..Len(a.sessions) :
                a.sessions[k].session_type.type = "ApiKey"
      THEN SessionMechanismSummary("API Key", "Static API key authentication")
      ELSE SessionMechanismSummary("Unknown",
             "Could not determine session mechanism")

\* AuthSummaryGenerator::generate_summary: Option<AuthenticationSummary>, of
\* which primary_method and session_mechanism are modelled
generate_summary(a) ==
  IF a.methods = <<>> /\ a.sessions = <<>> /\ a.flows = <<>> /\ a.jwt_tokens = <<>>
  THEN None
  ELSE Some([primary_method |-> determine_primary_method(a),
             session_mechanism |-> determine_session_mechanism(a)])

\* ExposureType::as_str, CorsIssueType::as_str, CspFindingType::as_str
exposure_type_as_str(t) ==
  CASE t = "TokenInUrl" -> "Token in URL"
    [] t = "TokenInQueryParam" -> "Token in query parameter"
    [] t = "TokenInReferer" -> "Token in Referer header"
    [] t = "CredentialsInUrl" -> "Credentials in URL"
    [] t = "SensitiveDataInUrl" -> "Sensitive data in URL"

cors_issue_type_as_str(t) ==
  CASE t = "WildcardWithCredentials" -> "wildcard with credentials"
    [] t = "OverlyPermissiveOrigin" -> "overly permissive origin"
    [] t = "MissingCorsHeaders" -> "missing CORS headers"
    [] t = "InsecureOrigin" -> "insecure origin"

csp_finding_type_as_str(t) ==
  CASE t = "MissingCsp" -> "missing CSP"
    [] t = "UnsafeInline" -> "unsafe-inline"
    [] t = "UnsafeEval" -> "unsafe-eval"
    [] t = "WildcardSource" -> "wildcard source"
    [] t = "WeakPolicy" -> "weak policy"

\* one binding of a HashMap<String, (usize, Vec<usize>)>
Binding(key, count, entries) == [key |-> key, count |-> count, entries |-> entries]

SampleEntriesMax == 3

upsert_every_entry(map, key, entry_index) ==
  IF \E k \in 1..Len(map) : map[k].key = key
  THEN [k \in 1..Len(map) |->
          IF map[k].key = key
          THEN Binding(key, map[k].count + 1, map[k].entries \o entry_index)
          ELSE map[k]]
  ELSE Append(map, Binding(key, 1, entry_index))

\* map.entry(key).and_modify(count += 1; push entry if fewer than 3 and Some)
\*    .or_insert((1, entry as a list))
upsert(map, key, entry_index) ==
  IF \E k \in 1..Len(map) : map[k].key = key
  THEN [k \in 1..Len(map) |->
          IF map[k].key = key
          THEN Binding(key, map[k].count + 1,
                 IF Len(map[k].entries) < SampleEntriesMax /\ IsSome(entry_index)
                 THEN Append(map[k].entries, Unwrap(entry_index))
                 ELSE map[k].entries)
          ELSE map[k]]
  ELSE Append(map, Binding(key, 1, entry_index))

\* map.insert(key, value): replaces the value of a key already bound
insert(map, b) ==
  IF \E k \in 1..Len(map) : map[k].key = b.key
  THEN [k \in 1..Len(map) |-> IF map[k].key = b.key THEN b ELSE map[k]]
  ELSE Append(map, b)

\* a loop of upserts (or inserts) over a list of [key, entry_index] items
RECURSIVE upsert_all(_, _)
upsert_all(map, items) ==
  IF items = <<>> THEN map
  ELSE upsert_all(upsert(map, Head(items).key, Head(items).entry_index), Tail(items))

RECURSIVE insert_all(_, _)
insert_all(map, bindings) ==
  IF bindings = <<>> THEN map
  ELSE insert_all(insert(map, Head(bindings)), Tail(bindings))

Item(key, entry_index) == [key |-> key, entry_index |-> entry_index]

\* the notes and token exposures of one severity, as the keys and entry
\* indices the first two loops of aggregate_security_findings upsert
severity_items(a, severity) ==
  LET notes == SelectSeq(a.security_notes, LAMBDA n : n.severity = severity)
      exposures == SelectSeq(a.advanced_security.token_exposures,
                             LAMBDA e : e.severity = severity)
  IN  [k \in 1..Len(notes) |->
         Item(notes[k].category \o " - " \o notes[k].message, notes[k].entry_index)]
      \o [k \in 1..Len(exposures) |->
         Item("Token Exposure - " \o exposure_type_as_str(exposures[k].exposure_type),
              Some(exposures[k].entry_index))]

\* cors_by_type, then one binding "CORS <type>" per type in the order the
\* map yields them
cors_bindings(a, seed) ==
  LET issues == a.advanced_security.cors_issues
      by_type == upsert_all(<<>>,
                   [k \in 1..Len(issues) |->
                      Item(cors_issue_type_as_str(issues[k].issue_type),
                           Some(issues[k].entry_index))])
      order == HashIter({by_type[k].key : k \in 1..Len(by_type)}, seed)
  IN  [i \in 1..Len(order) |->
         LET b == by_type[CHOOSE k \in 1..Len(by_type) : by_type[k].key = order[i]]
         IN  Binding("CORS " \o Replace(b.key, "_", " "), b.count, b.entries)]

csp_bindings(a, seed) ==
  LET findings == a.advanced_security.csp_findings
      by_type == upsert_all(<<>>,
                   [k \in 1..Len(findings) |->
                      Item(csp_finding_type_as_str(findings[k].finding_type),
                           Some(findings[k].entry_index))])
      order == HashIter({by_type[k].key : k \in 1..Len(by_type)}, seed)
  IN  [i \in 1..Len(order) |->
         LET b == by_type[CHOOSE k \in 1..Len(by_type) : by_type[k].key = order[i]]
         IN  Binding("CSP " \o Replace(b.key, "_", " "), b.count, b.entries)]

AggregatedFinding(b) ==
  [finding_type |-> Split(b.key, " - ")[1], message |-> b.key,
   count |-> b.count, sample_entries |-> b.entries]

\* map.into_iter().map(..).collect(), then sort_by(|a, b| b.count.cmp(&a.count))
to_findings(map, seed) ==
  LET order == HashIter({map[k].key : k \in 1..Len(map)}, seed)
      findings == [i \in 1..Len(order) |->
                     AggregatedFinding(
                       map[CHOOSE k \in 1..Len(map) : map[k].key = order[i]])]
  IN  StableSort(findings, [k \in 1..Len(findings) |-> findings[k].count],
                 "descending")

\* AuthSummaryGenerator::aggregate_security_findings
aggregate_security_findings(a, seed) ==
  LET critical == upsert_all(<<>>, severity_items(a, "Critical"))
      warnings == insert_all(upsert_all(<<>>, severity_items(a, "Warning")),
                             cors_bindings(a, seed))
      info == insert_all(upsert_all(<<>>, severity_items(a, "Info")),
                         csp_bindings(a, seed))
  IN  [critical |-> to_findings(critical, seed),
       warnings |-> to_findings(warnings, seed),
       info |-> to_findings(info, seed)]

(***************************************************************************)
(* The analysed archives.  An archive is a list of transactions drawn from  *)
(* a catalogue; every catalogue entry is a complete har::Entry.  Archives  *)
(* hold at most MaxEntries transactions, and at most MaxStepEntries where  *)
(* three-step flows are followed.                                          *)
(***************************************************************************)
MaxEntries == 2
MaxStepEntries == 3

NoResponse == Response(200, <<>>, <<>>, Content("", None))

Get(time, url, headers, cookies) ==
  Entry(time, Request("GET", url, headers, cookies, None), NoResponse)

Bearer(token) == Header("Authorization", "Bearer " \o token)

\* tokens that decode to {"alg":"HS256","typ":"JWT"} . {"sub":"a"} and to
\* {"alg":"RS256"} . {"sub":"a","exp":1700,"iat":1000}
SignedJwt == "eyJhbGciOiJIUzI1NiIsInR5cCI6IkpXVCJ9.eyJzdWIiOiJhIn0.c2ln"
OtherJwt == "eyJhbGciOiJSUzI1NiJ9.eyJzdWIiOiJhIiwiZXhwIjoxNzAwLCJpYXQiOjEwMDB9.c2ln"

\* three non-empty segments, the first with a byte outside [A-Za-z0-9_-]
PlusToken == "a+b.c.d"

\* the two-byte character ^~ occupies bytes 15 and 16
MultibyteToken == "0123456789abcde^~xyz"

FiveCookies ==
  [k \in 1..5 |->
     Cookie(<<"session_a", "auth_b", "token_c", "jwt_d", "sid">>[k], "v",
            None, Some(TRUE))]

AuthCatalogue ==
  << Get("1970-01-01T00:00:01Z", "https://app.test/home", <<>>, FiveCookies),
     Get("1970-01-01T00:00:02Z", "https://api.test/me", <<Bearer(SignedJwt)>>, <<>>),
     Get("1970-01-01T00:00:02Z", "https://api.test/me",
         <<Bearer(OtherJwt), Header("X-API-Key", "k1")>>, <<>>),
     Get("1970-01-01T00:00:03Z", "https://api.test/me", <<Bearer(PlusToken)>>, <<>>),
     Get("1970-01-01T00:00:04Z", "https://api.test/me",
         <<Bearer("tok"), Bearer("tok")>>, <<>>),
     Get("1970-01-01T00:00:05Z", "https://api.test/me", <<Bearer("tok")>>, <<>>),
     Get("1970-01-01T00:00:06Z", "https://api.test/me",
         <<Bearer(MultibyteToken)>>, <<>>),
     Entry("1970-01-01T00:00:07Z",
           Request("GET", "https://app.test/page", <<Header("Origin", "https://x.test")>>,
                   <<>>, None),
           Response(200,
                    <<Header("Access-Control-Allow-Origin", "*"),
                      Header("Access-Control-Allow-Credentials", "true"),
                      Header("Content-Security-Policy", "script-src 'unsafe-inline'")>>,
                    <<>>, Content("text/html", None))),
     Get("1970-01-01T00:00:08Z", "https://sp.test/saml/logout", <<>>, <<>>) >>

HtmlResponse == Response(200, <<>>, <<>>, Content("text/html", None))

\* POST /login with a form body, the response setting one cookie
FormLogin(time, cookie_name) ==
  Entry(time,
        Request("POST", "https://app.test/login", <<>>, <<>>,
                Some(PostData("application/x-www-form-urlencoded",
                              Some("username=a&password=b")))),
        Response(200, <<>>, <<Cookie(cookie_name, "v", Some(TRUE), Some(TRUE))>>,
                 Content("text/html", None)))

FlowCatalogue ==
  << Entry("1970-01-01T00:00:01Z",
           Request("GET", "https://app.test/login", <<>>, <<>>, None), HtmlResponse),
     FormLogin("1970-01-01T00:00:02Z", "sessionid"),
     FormLogin("1970-01-01T00:00:02Z", "sid"),
     Get("1970-01-01T00:00:03Z", "https://app.test/dashboard", <<>>,
         <<Cookie("sessionid", "v", None, None), Cookie("sid", "v", None, None)>>),
     Entry("1970-01-01T00:00:04Z",
           Request("POST", "https://auth.test/oauth/token", <<>>, <<>>,
                   Some(PostData("application/x-www-form-urlencoded",
                                 Some("grant_type=client_credentials")))),
           NoResponse),
     Get("1970-01-01T00:00:05Z", "https://sp.test/saml/sso", <<>>, <<>>),
     Get("1970-01-01T00:00:06Z", "https://sp.test/post?SAMLResponse=x", <<>>, <<>>),
     Get("1970-01-01T00:00:07Z", "https://idp.test/idp/login", <<>>, <<>>),
     Get("1970-01-01T00:00:08Z", "https://sp.test/saml/logout", <<>>, <<>>),
     Get("1970-01-01T00:00:09Z", "https://auth.test/authorize?response_type=token",
         <<>>, <<>>),
     Get("1970-01-01T00:00:10Z", "https://app.test/cb?code=x", <<>>, <<>>) >>

\* the carriers of JWTs, and two carriers of opaque tokens whose timestamps
\* are written with a UTC offset and with a fraction of a second;
\* tokens that decode to {"alg":"none"} . {"sub":"a"} with no signature, to
\* {"alg":"NONE"} . {"sub":"a"}, to {"typ":"JWT","alg":"HS256"} . {"sub":"a"}
\* and to {"typ":"JWT","alg":"none"} . {"sub":"b"}
NoneJwt == "eyJhbGciOiJub25lIn0.eyJzdWIiOiJhIn0."
UpperNoneJwt == "eyJhbGciOiJOT05FIn0.eyJzdWIiOiJhIn0.c2ln"
TypFirstJwt == "eyJ0eXAiOiJKV1QiLCJhbGciOiJIUzI1NiJ9.eyJzdWIiOiJhIn0.c2ln"
TypFirstNoneJwt == "eyJ0eXAiOiJKV1QiLCJhbGciOiJub25lIn0.eyJzdWIiOiJiIn0."

JsonResponse(text) == Response(200, <<>>, <<>>, Content("application/json", Some(text)))

TokenCatalogue ==
  << Get("1970-01-01T00:00:01Z", "https://api.test/me", <<Bearer(NoneJwt)>>, <<>>),
     Entry("1970-01-01T00:00:02Z",
           Request("POST", "https://api.test/session", <<>>, <<>>, None),
           JsonResponse("{\"access_token\":\"" \o NoneJwt \o "\"}")),
     Get("1970-01-01T00:00:03Z", "https://api.test/me", <<Bearer(TypFirstJwt)>>, <<>>),
     Get("1970-01-01T00:00:04Z", "https://api.test/me", <<Bearer(TypFirstNoneJwt)>>,
         <<>>),
     Get("1970-01-01T00:00:05Z", "https://api.test/me", <<Bearer(UpperNoneJwt)>>, <<>>),
     Get("1970-01-01T01:00:00+01:00", "https://api.test/me", <<Bearer("tokA")>>, <<>>),
     Get("1970-01-01T00:00:01.500Z", "https://api.test/me", <<Bearer("tokB")>>, <<>>) >>

\* a GET of a page whose response carries the given headers
Page(time, response_headers) ==
  Entry(time, Request("GET", "https://app.test/page", <<>>, <<>>, None),
        Response(200, response_headers, <<>>, Content("", None)))

AllowAnyOrigin == Header("Access-Control-Allow-Origin", "*")
AllowCredentials == Header("Access-Control-Allow-Credentials", "true")

ResponseCatalogue ==
  << Page("1970-01-01T00:00:01Z", <<AllowAnyOrigin, AllowCredentials>>),
     Page("1970-01-01T00:00:02Z", <<AllowCredentials, AllowAnyOrigin>>),
     Page("1970-01-01T00:00:03Z",
          <<AllowAnyOrigin, AllowCredentials,
            Header("Access-Control-Allow-Origin", "https://app.test")>>),
     Page("1970-01-01T00:00:04Z", <<AllowAnyOrigin>>),
     Page("1970-01-01T00:00:05Z",
          <<AllowCredentials, Header("Access-Control-Allow-Origin", "http://a.test")>>) >>

\* refused and served requests, with and without credentials, with and
\* without a response body
Denied(time, headers, text) ==
  Entry(time, Request("GET", "https://api.test/data", headers, <<>>, None),
        Response(401, <<>>, <<>>, Content("text/plain", text)))

EventCatalogue ==
  << Denied("1970-01-01T00:00:01Z", <<Bearer("tok")>>, None),
     Denied("1970-01-01T00:00:02Z", <<Bearer("tok")>>, Some("Forbidden")),
     Denied("1970-01-01T00:00:03Z", <<Header("cookie", "sid=1")>>, Some("Token EXPIRED")),
     Denied("1970-01-01T00:00:04Z", <<>>, Some("unauthorized")),
     Denied("1970-01-01T00:00:05Z", <<Header("X-Auth-Token", "t")>>, None),
     Entry("1970-01-01T00:00:06Z",
           Request("GET", "https://api.test/data", <<Bearer("tok")>>, <<>>, None),
           Response(200, <<>>, <<>>, Content("text/plain", Some("expired")))) >>

\* SAML exchanges over http:// and over https://
SamlCatalogue ==
  << Get("1970-01-01T00:00:01Z", "http://sp.test/saml/sso", <<>>, <<>>),
     Get("1970-01-01T00:00:02Z", "http://sp.test/post?SAMLResponse=x", <<>>, <<>>),
     Get("1970-01-01T00:00:03Z", "https://sp.test/post?SAMLResponse=x", <<>>, <<>>),
     Get("1970-01-01T00:00:04Z", "https://idp.test/idp/login", <<>>, <<>>),
     Get("1970-01-01T00:00:05Z", "https://sp.test/saml/sso", <<>>, <<>>),
     Get("1970-01-01T00:00:06Z", "https://sp.test/acs", <<>>, <<>>) >>

\* requests with cookies, each cookie also in the Cookie header where there
\* is one, and a request with two spellings of an API-key header
WithCookie(time, header, name, value) ==
  Get(time, "https://app.test/home", header, <<Cookie(name, value, None, None)>>)

MethodCatalogue ==
  << WithCookie("1970-01-01T00:00:01Z", <<Header("Cookie", "theme=residential")>>,
                "theme", "residential"),
     WithCookie("1970-01-01T00:00:02Z", <<Header("Cookie", "sessionid=1")>>,
                "sessionid", "1"),
     WithCookie("1970-01-01T00:00:03Z", <<>>, "SID", "1"),
     WithCookie("1970-01-01T00:00:04Z", <<>>, "inside", "1"),
     WithCookie("1970-01-01T00:00:05Z", <<Header("Cookie", "lang=en")>>, "lang", "en"),
     Get("1970-01-01T00:00:06Z", "https://api.test/me",
         <<Header("X-API-Key", "k1"), Header("x-api-key", "k1")>>, <<>>) >>

\* an anchor, transactions that match nothing, and the step that closes the
\* flow of the anchor: a SAML logout, an IdP-initiated SAML response and a
\* form login, each with its closing step
MaxWindowEntries == 8

WindowAnchors ==
  << Get("1970-01-01T00:00:01Z", "https://sp.test/saml/logout", <<>>, <<>>),
     Get("1970-01-01T00:00:01Z", "https://sp.test/post?SAMLResponse=x", <<>>, <<>>),
     Entry("1970-01-01T00:00:01Z",
           Request("GET", "https://app.test/login", <<>>, <<>>, None), HtmlResponse) >>

WindowFiller == Get("1970-01-01T00:00:02Z", "https://app.test/static", <<>>, <<>>)

WindowClosers ==
  << Get("1970-01-01T00:00:03Z", "https://sp.test/slo?SAMLLogoutResponse=x", <<>>, <<>>),
     Get("1970-01-01T00:00:03Z", "https://sp.test/acs", <<>>, <<>>),
     FormLogin("1970-01-01T00:00:03Z", "sessionid") >>

\* the transactions of an OAuth2 authorization-code exchange, with and
\* without PKCE
MaxOAuthEntries == 4

TokenRequest(time, text) ==
  Entry(time,
        Request("POST", "https://auth.test/token", <<>>, <<>>,
                Some(PostData("application/x-www-form-urlencoded", Some(text)))),
        NoResponse)

OAuthCatalogue ==
  << Get("1970-01-01T00:00:01Z",
         "https://auth.test/authorize?code_challenge=c&code_challenge_method=S256",
         <<>>, <<>>),
     Get("1970-01-01T00:00:02Z", "https://auth.test/authorize?code_challenge_method=S256",
         <<>>, <<>>),
     Get("1970-01-01T00:00:03Z", "https://app.test/cb?code=x", <<>>, <<>>),
     TokenRequest("1970-01-01T00:00:04Z", "grant_type=authorization_code&code=x"),
     TokenRequest("1970-01-01T00:00:05Z",
                  "grant_type=authorization_code&code=x&code_verifier=v"),
     Get("1970-01-01T00:00:06Z", "https://api.test/me", <<Bearer("tok")>>, <<>>) >>

\* logins: answered with a session cookie, refused with an error message,
\* answered with a redirect, answered with a token and an error field,
\* answered with nothing, and a password grant at a token endpoint
Login(time, url, mime_type, text, response) ==
  Entry(time, Request("POST", url, <<>>, <<>>, Some(PostData(mime_type, Some(text)))),
        response)

LoginCatalogue ==
  << FormLogin("1970-01-01T00:00:01Z", "sessionid"),
     Login("1970-01-01T00:00:02Z", "https://app.test/login",
           "application/x-www-form-urlencoded", "username=a&password=b",
           Response(401, <<>>, <<>>,
                    Content("application/json", Some("{\"error\":\"bad\"}")))),
     Login("1970-01-01T00:00:03Z", "https://app.test/login",
           "application/x-www-form-urlencoded", "email=a&password=b",
           Response(302, <<>>, <<>>, Content("", None))),
     Login("1970-01-01T00:00:04Z", "https://app.test/api/auth",
           "application/json", "{\"user\":\"a\",\"password\":\"b\"}",
           Response(201, <<>>, <<>>,
                    Content("application/json",
                            Some("{\"token\":\"x\",\"error\":\"none\"}")))),
     Login("1970-01-01T00:00:05Z", "https://app.test/signin",
           "application/x-www-form-urlencoded", "username=a&password=b", NoResponse),
     Login("1970-01-01T00:00:06Z", "https://auth.test/oauth/token",
           "application/x-www-form-urlencoded", "grant_type=password&user=a&pass=b",
           JsonResponse("{\"access_token\":\"x\"}")) >>

\* requests over http:// and https://, with and without credentials
TransportCatalogue ==
  << Get("1970-01-01T00:00:01Z", "http://api.test/me", <<Bearer("tok")>>, <<>>),
     Get("1970-01-01T00:00:02Z", "http://api.test/me", <<Header("X-Api-Key", "k1")>>, <<>>),
     Get("1970-01-01T00:00:03Z", "http://app.test/home", <<>>,
         <<Cookie("sessionid", "v", None, None)>>),
     Get("1970-01-01T00:00:04Z", "https://api.test/me", <<Bearer("tok")>>, <<>>),
     Get("1970-01-01T00:00:05Z", "http://app.test/home", <<Header("Accept", "*/*")>>,
         <<Cookie("lang", "en", None, None)>>),
     Get("1970-01-01T00:00:06Z", "https://app.test/home", <<>>,
         <<Cookie("sessionid", "v", None, None)>>) >>

\* a client-credentials token request and a later request, both carrying
\* the same opaque Bearer token, at timestamps that parse and that do not
GrantWithBearer(time) ==
  Entry(time,
        Request("POST", "https://auth.test/oauth/token", <<Bearer("tok")>>, <<>>,
                Some(PostData("application/x-www-form-urlencoded",
                              Some("grant_type=client_credentials")))),
        NoResponse)

DurationCatalogue ==
  << GrantWithBearer("yesterday"),
     GrantWithBearer("1970-01-01T00:00:01Z"),
     GrantWithBearer("1970-01-01T01:00:01.250+01:00"),
     Get("1970-01-01T00:00:03Z", "https://api.test/me", <<Bearer("tok")>>, <<>>),
     Get("soon", "https://api.test/me", <<Bearer("tok")>>, <<>>),
     Get("1970-01-01T00:00:04.500Z", "https://api.test/me", <<Bearer("tok")>>, <<>>) >>

\* requests that leak a token in several Referer headers, a page with a
\* CORS and a CSP finding, credentials over http://, a session cookie
\* without HttpOnly, and an API key in the query string
LeakingReferer == Header("Referer", "https://app.test/cb?token=x")

FindingCatalogue ==
  << Get("1970-01-01T00:00:01Z", "https://app.test/a",
         <<LeakingReferer, LeakingReferer, LeakingReferer>>, <<>>),
     Entry("1970-01-01T00:00:02Z",
           Request("GET", "https://app.test/page",
                   <<Header("Origin", "https://x.test"), LeakingReferer>>, <<>>, None),
           Response(200,
                    <<Header("Access-Control-Allow-Origin", "*"),
                      Header("Access-Control-Allow-Credentials", "true"),
                      Header("Content-Security-Policy", "script-src 'unsafe-inline'")>>,
                    <<>>, Content("text/html", None))),
     Get("1970-01-01T00:00:03Z", "http://api.test/me?token=x", <<Bearer("tok")>>, <<>>),
     Get("1970-01-01T00:00:04Z", "https://app.test/home", <<>>,
         <<Cookie("sessionid", "v", None, Some(TRUE))>>),
     Get("1970-01-01T00:00:05Z", "https://api.test/me?api_key=k", <<>>, <<>>) >>

\* an AuthnRequest and SAML responses, one of them posted to the IdP and
\* one to the SSO endpoint itself
CoverageCatalogue ==
  << Get("1970-01-01T00:00:01Z", "https://sp.test/saml/sso", <<>>, <<>>),
     Get("1970-01-01T00:00:02Z", "https://sp.test/post?SAMLResponse=x", <<>>, <<>>),
     Get("1970-01-01T00:00:03Z", "https://idp.test/idp/post?SAMLResponse=x", <<>>, <<>>),
     Get("1970-01-01T00:00:04Z", "https://sp.test/saml/sso?SAMLResponse=x", <<>>, <<>>) >>

\* archives for the run on workers: two session cookies, two header methods,
\* and a token whose 20th byte is inside a character
MaxDetectorEntries == 1

DetectorCatalogue ==
  << Get("1970-01-01T00:00:01Z", "https://app.test/home", <<>>,
         <<Cookie("session_a", "v", None, None), Cookie("auth_b", "v", None, None)>>),
     Get("1970-01-01T00:00:02Z", "https://api.test/me",
         <<Header("Authorization", "Basic dXNlcjpwYXNz"), Header("X-API-Key", "k1")>>,
         <<>>),
     Get("1970-01-01T00:00:03Z", "https://api.test/me",
         <<Bearer(MultibyteToken)>>, <<>>) >>

(***************************************************************************)
(* The state machine: an archive is loaded entry by entry, analysed,       *)
(* possibly analysed a second time, and the two derived views are          *)
(* computed from the first analysis.                                       *)
(***************************************************************************)
NoReport == [outcome |-> "None", summary |-> None,
             findings |-> [critical |-> <<>>, warnings |-> <<>>, info |-> <<>>]]

\* the eight detectors AuthAnalyzer::analyze calls
Detectors ==
  {"methods", "sessions", "flows", "events", "security", "jwt", "saml", "advanced"}

NoWorkers == [input |-> <<>>, finished |-> {}, panicked |-> FALSE]

Init ==
  /\ har = <<>>
  /\ pc = "load"
  /\ analysis = NoAnalysis("NotRun")
  /\ analysis2 = NoAnalysis("NotRun")
  /\ report = NoReport
  /\ workers = NoWorkers
  /\ parallel = NoAnalysis("NotRun")

\* the archive reader appends one transaction
Load(catalogue, max) ==
  /\ pc = "load"
  /\ Len(har) < max
  /\ \E k \in 1..Len(catalogue) : har' = Append(har, catalogue[k])
  /\ UNCHANGED <<pc, analysis, analysis2, report, workers, parallel>>

LoadAuthEntry == Load(AuthCatalogue, MaxEntries)

LoadFlowEntry == Load(FlowCatalogue, MaxEntries)

LoadStepEntry == Load(FlowCatalogue, MaxStepEntries)

LoadTokenEntry == Load(TokenCatalogue, MaxEntries)

LoadResponseEntry == Load(ResponseCatalogue, MaxEntries)

\* AuthAnalyzer::analyze(har)
Analyze ==
  /\ pc = "load"
  /\ \E seed \in 0..HashSeeds - 1 : analysis' = analyze(har, seed)
  /\ pc' = "analyzed"
  /\ UNCHANGED <<har, analysis2, report, workers, parallel>>

\* a second AuthAnalyzer::analyze(har) on the same archive
Reanalyze ==
  /\ pc = "analyzed"
  /\ \E seed \in 0..HashSeeds - 1 : analysis2' = analyze(har, seed)
  /\ pc' = "reanalyzed"
  /\ UNCHANGED <<har, analysis, report, workers, parallel>>

\* generate_summary(&analysis) and aggregate_security_findings(&analysis)
Summarize ==
  /\ pc \in {"analyzed", "reanalyzed"}
  /\ analysis.outcome = "Ok"
  /\ \E seed \in 0..HashSeeds - 1 :
       report' = [outcome |-> "Ok",
                  summary |-> generate_summary(analysis),
                  findings |-> aggregate_security_findings(analysis, seed)]
  /\ pc' = "reported"
  /\ UNCHANGED <<har, analysis, analysis2, workers, parallel>>

\* SecurityAnalyzer::analyze takes &methods and &sessions, the other
\* detectors take &har alone
detector_ready_unordered(detector, finished) == TRUE

detector_ready(detector, finished) ==
  detector = "security" => {"methods", "sessions"} \subseteq finished

\* the detectors start on workers of their own, each handed &har
Fork ==
  /\ pc = "analyzed"
  /\ workers' = [input |-> har, finished |-> {}, panicked |-> FALSE]
  /\ parallel' = NoAnalysis("NotRun")
  /\ pc' = "detecting"
  /\ UNCHANGED <<har, analysis, analysis2, report>>

Startable(detector) ==
  /\ pc = "detecting"
  /\ detector \notin workers.finished
  /\ detector_ready(detector, workers.finished)

\* a worker returns its result, or aborts and leaves none
Finish(detector, panics) ==
  /\ workers' = IF panics THEN [workers EXCEPT !.panicked = TRUE]
                ELSE [workers EXCEPT !.finished = @ \cup {detector}]
  /\ UNCHANGED <<har, pc, analysis, analysis2, report>>

\* 1. AuthDetector::detect(har)
DetectMethods ==
  /\ Startable("methods")
  /\ \E seed \in 0..HashSeeds - 1 :
       parallel' = [parallel EXCEPT !.methods = detect(har, seed)]
  /\ Finish("methods", FALSE)

\* 2. SessionTracker::track_sessions(har)
TrackSessions ==
  /\ Startable("sessions")
  /\ IF track_sessions_panics(har) THEN UNCHANGED parallel
     ELSE \E seed \in 0..HashSeeds - 1 :
            parallel' = [parallel EXCEPT !.sessions = track_sessions(har, seed)]
  /\ Finish("sessions", track_sessions_panics(har))

\* 3. FlowDetector::detect_flows(har)
DetectFlows ==
  /\ Startable("flows")
  /\ parallel' = IF detect_flows_panics(har) THEN parallel
                 ELSE [parallel EXCEPT !.flows = detect_flows(har)]
  /\ Finish("flows", detect_flows_panics(har))

\* 4. EventDetector::detect_events(har)
DetectEvents ==
  /\ Startable("events")
  /\ parallel' = IF detect_events_panics(har) THEN parallel
                 ELSE [parallel EXCEPT !.events = detect_events(har)]
  /\ Finish("events", detect_events_panics(har))

\* 5. SecurityAnalyzer::analyze(har, &methods, &sessions)
AnalyzeSecurity ==
  /\ Startable("security")
  /\ parallel' = [parallel EXCEPT !.security_notes =
                    security_analyze(har, parallel.methods, parallel.sessions)]
  /\ Finish("security", FALSE)

\* 6. JwtAnalyzer::analyze(har)
AnalyzeJwt ==
  /\ Startable("jwt")
  /\ \E seed \in 0..HashSeeds - 1 :
       LET jwt == jwt_analyze(har, seed)
       IN  /\ parallel' = IF jwt.panicked THEN parallel
                          ELSE [parallel EXCEPT !.jwt_tokens = jwt.tokens,
                                                !.jwt_issues = jwt.issues]
           /\ Finish("jwt", jwt.panicked)

\* 7. SamlDetector::detect_flows(har), its flows and its security issues
DetectSaml ==
  /\ Startable("saml")
  /\ parallel' = IF saml_detect_flows_panics(har) THEN parallel
                 ELSE [parallel EXCEPT
                         !.saml_flows = saml_detect_flows(har),
                         !.saml_security_issues = saml_security_issues(har)]
  /\ Finish("saml", saml_detect_flows_panics(har))

\* 8. AdvancedSecurityAnalyzer::analyze(har)
AnalyzeAdvanced ==
  /\ Startable("advanced")
  /\ parallel' = IF detect_token_exposures_panics(har) THEN parallel
                 ELSE [parallel EXCEPT !.advanced_security = advanced_analyze(har)]
  /\ Finish("advanced", detect_token_exposures_panics(har))

\* the workers are joined: the abort of one aborts the run, otherwise the
\* AuthAnalysis is built from the eight results
Join ==
  /\ pc = "detecting"
  /\ workers.panicked \/ workers.finished = Detectors
  /\ parallel' = IF workers.panicked THEN NoAnalysis("Panic")
                 ELSE [parallel EXCEPT !.outcome = "Ok"]
  /\ pc' = "joined"
  /\ UNCHANGED <<har, analysis, analysis2, report, workers>>

Next == LoadAuthEntry \/ Analyze \/ Reanalyze \/ Summarize

Spec == Init /\ [][Next]_vars

\* the same machine over the archives of login, OAuth2 and SAML exchanges
NextFlows == LoadFlowEntry \/ Analyze \/ Reanalyze \/ Summarize

SpecFlows == Init /\ [][NextFlows]_vars

\* and over the archives long enough for three-step flows
NextSteps == LoadStepEntry \/ Analyze \/ Reanalyze \/ Summarize

SpecSteps == Init /\ [][NextSteps]_vars

\* over the archives of JWT carriers
NextTokens == LoadTokenEntry \/ Analyze \/ Reanalyze \/ Summarize

SpecTokens == Init /\ [][NextTokens]_vars

\* over the archives of responses
NextResponses == LoadResponseEntry \/ Analyze \/ Reanalyze \/ Summarize

SpecResponses == Init /\ [][NextResponses]_vars

\* over the archives of refused requests
LoadEventEntry == Load(EventCatalogue, MaxEntries)

NextEvents == LoadEventEntry \/ Analyze \/ Reanalyze \/ Summarize

SpecEvents == Init /\ [][NextEvents]_vars

\* over the archives of SAML exchanges
LoadSamlEntry == Load(SamlCatalogue, MaxEntries)

NextSaml == LoadSamlEntry \/ Analyze \/ Reanalyze \/ Summarize

SpecSaml == Init /\ [][NextSaml]_vars

\* over the archives of requests with cookies
LoadMethodEntry == Load(MethodCatalogue, MaxEntries)

NextMethods == LoadMethodEntry \/ Analyze \/ Reanalyze \/ Summarize

SpecMethods == Init /\ [][NextMethods]_vars

\* the archive reader appends an anchor first, then transactions that match
\* nothing, then one closing step
LoadWindowEntry ==
  /\ pc = "load"
  /\ Len(har) < MaxWindowEntries
  /\ IF har = <<>>
     THEN \E k \in 1..Len(WindowAnchors) : har' = <<WindowAnchors[k]>>
     ELSE /\ \A k \in 1..Len(WindowClosers) : har[Len(har)] # WindowClosers[k]
          /\ \/ har' = Append(har, WindowFiller)
             \/ \E k \in 1..Len(WindowClosers) : har' = Append(har, WindowClosers[k])
  /\ UNCHANGED <<pc, analysis, analysis2, report, workers, parallel>>

NextWindows == LoadWindowEntry \/ Analyze \/ Reanalyze \/ Summarize

SpecWindows == Init /\ [][NextWindows]_vars

\* over the archives of OAuth2 authorization-code exchanges
\* the archive reader appends a transaction that is not earlier than the
\* last one (the catalogue is in time order)
LoadOAuthEntry ==
  /\ pc = "load"
  /\ Len(har) < MaxOAuthEntries
  /\ \E k \in 1..Len(OAuthCatalogue) :
       /\ \A j \in 1..Len(OAuthCatalogue) :
            har # <<>> /\ har[Len(har)] = OAuthCatalogue[j] => j <= k
       /\ har' = Append(har, OAuthCatalogue[k])
  /\ UNCHANGED <<pc, analysis, analysis2, report, workers, parallel>>

NextOAuth == LoadOAuthEntry \/ Analyze

SpecOAuth == Init /\ [][NextOAuth]_vars

\* over the archives of logins
LoadLoginEntry == Load(LoginCatalogue, MaxEntries)

NextLogins == LoadLoginEntry \/ Analyze \/ Reanalyze \/ Summarize

SpecLogins == Init /\ [][NextLogins]_vars

\* over the archives of requests over http:// and https://
LoadTransportEntry == Load(TransportCatalogue, MaxEntries)

NextTransport == LoadTransportEntry \/ Analyze \/ Reanalyze \/ Summarize

SpecTransport == Init /\ [][NextTransport]_vars

\* over the archives of flows and sessions with the same first and last
\* transaction
LoadDurationEntry == Load(DurationCatalogue, MaxEntries)

NextDurations == LoadDurationEntry \/ Analyze \/ Reanalyze \/ Summarize

SpecDurations == Init /\ [][NextDurations]_vars

\* over the archives whose findings repeat
LoadFindingEntry == Load(FindingCatalogue, MaxEntries)

NextFindings == LoadFindingEntry \/ Analyze \/ Reanalyze \/ Summarize

SpecFindings == Init /\ [][NextFindings]_vars

\* over the archives of SAML requests and responses
LoadCoverageEntry == Load(CoverageCatalogue, MaxStepEntries)

NextCoverage == LoadCoverageEntry \/ Analyze

SpecCoverage == Init /\ [][NextCoverage]_vars

\* the sequential run followed by a run of the detectors on workers
LoadDetectorEntry == Load(DetectorCatalogue, MaxDetectorEntries)

NextDetectors ==
  \/ LoadDetectorEntry \/ Analyze \/ Fork
  \/ DetectMethods \/ TrackSessions \/ DetectFlows \/ DetectEvents
  \/ AnalyzeSecurity \/ AnalyzeJwt \/ DetectSaml \/ AnalyzeAdvanced
  \/ Join

SpecDetectors == Init /\ [][NextDetectors]_vars

(***************************************************************************)
(* The claims.  What a claim says of the input is stated on har, what it   *)
(* says of the result on analysis, analysis2 and report.                   *)
(***************************************************************************)
Analyzed == pc # "load" /\ analysis.outcome = "Ok"

Reported == pc = "reported" /\ report.outcome = "Ok"

\* the tokens of the `Authorization: Bearer <token>` request headers of har
BearerHeaderTokens ==
  {SliceFrom(har[i].request.headers[j].value, 7) :
     <<i, j>> \in {<<i, j>> \in (1..Len(har)) \X (1..2) :
       /\ j <= Len(har[i].request.headers)
       /\ har[i].request.headers[j].name = "Authorization"
       /\ StartsWith(har[i].request.headers[j].value, "Bearer ")}}

\* the indices of the transactions that carry such a header
BearerCarriers ==
  {i \in Indices(har) :
     \E j \in 1..Len(EntryAt(har, i).request.headers) :
       /\ EntryAt(har, i).request.headers[j].name = "Authorization"
       /\ StartsWith(EntryAt(har, i).request.headers[j].value, "Bearer ")}

MethodTags == {analysis.methods[k].tag : k \in 1..Len(analysis.methods)}

ThreeSegments(token) ==
  LET parts == Split(token, ".")
  IN  Len(parts) = 3 /\ \A k \in 1..3 : parts[k] # ""

\* C10: when every Bearer token of the archive has exactly three non-empty
\* dot-separated segments, detect reports Jwt and not Bearer; when every
\* Bearer token has no dot, it reports Bearer and not Jwt.
C10_BearerClassification ==
  Analyzed /\ BearerHeaderTokens # {} =>
    /\ (\A t \in BearerHeaderTokens : ThreeSegments(t))
         => "Jwt" \in MethodTags /\ "Bearer" \notin MethodTags
    /\ (\A t \in BearerHeaderTokens : ~Contains(t, "."))
         => "Bearer" \in MethodTags /\ "Jwt" \notin MethodTags

BearerSessions ==
  SelectSeq(analysis.sessions, LAMBDA s : s.session_type.type = "BearerToken")

\* C9: when the transactions that carry a Bearer token all carry the same
\* one, track_sessions returns exactly one BearerToken session, whose
\* request_count is the number of those transactions and whose
\* entry_indices are their positions in input order.
C9_OneBearerSession ==
  Analyzed /\ Cardinality(BearerHeaderTokens) = 1 =>
    /\ Len(BearerSessions) = 1
    /\ BearerSessions[1].request_count = Cardinality(BearerCarriers)
    /\ BearerSessions[1].entry_indices = Ascending(BearerCarriers)

\* C3: analyze never aborts, whatever the strings of the archive: each run
\* returns an Ok result.
C3_NeverAborts == analysis.outcome # "Panic" /\ analysis2.outcome # "Panic"

\* the names of the Cookie sessions whose HttpOnly flag is missing
CookiesMissingHttpOnly ==
  {analysis.sessions[k].session_type.name :
     k \in {k \in 1..Len(analysis.sessions) :
              /\ analysis.sessions[k].session_type.type = "Cookie"
              /\ IsSome(analysis.sessions[k].attributes)
              /\ FlagMissing(Unwrap(analysis.sessions[k].attributes).http_only)}}

\* C1: when the analysis holds 5 distinct cookie sessions that each miss
\* HttpOnly, the warnings bucket holds one missing-HttpOnly entry whose
\* count is 5 and which keeps at most 3 sample entry indices.
C1_FiveCookiesOneFinding ==
  Reported /\ Cardinality(CookiesMissingHttpOnly) = 5 =>
    \E k \in 1..Len(report.findings.warnings) :
      LET f == report.findings.warnings[k]
      IN  /\ Contains(f.message, "missing HttpOnly")
          /\ f.count = 5
          /\ Len(f.sample_entries) <= 3

Severities == {"Critical", "Warning", "Info"}

\* the keys under which the findings of one severity are grouped
FindingKeys(severity) ==
  {n.category \o " - " \o n.message :
     n \in {m \in Range(analysis.security_notes) : m.severity = severity}}
  \cup {"Token Exposure - " \o exposure_type_as_str(e.exposure_type) :
     e \in {x \in Range(analysis.advanced_security.token_exposures) :
              x.severity = severity}}
  \cup {"CORS " \o cors_issue_type_as_str(i.issue_type) :
     i \in {x \in Range(analysis.advanced_security.cors_issues) :
              x.severity = severity}}
  \cup {"CSP " \o csp_finding_type_as_str(c.finding_type) :
     c \in {x \in Range(analysis.advanced_security.csp_findings) :
              x.severity = severity}}

BucketMessages(severity) ==
  LET bucket == IF severity = "Critical" THEN report.findings.critical
                ELSE IF severity = "Warning" THEN report.findings.warnings
                ELSE report.findings.info
  IN  {bucket[k].message : k \in 1..Len(bucket)}

\* C7: every finding is counted in the bucket of its own severity and in
\* no other bucket: Critical findings in critical, Warning findings in
\* warnings, Info findings in info.
C7_OwnSeverityBucket ==
  Reported =>
    \A severity \in Severities : \A key \in FindingKeys(severity) :
      /\ key \in BucketMessages(severity)
      /\ \A other \in Severities \ {severity} :
           key \in BucketMessages(other) => key \in FindingKeys(other)

PrimaryMethod == Unwrap(report.summary).primary_method

\* C6: the primary method is the first available signal in the order OAuth2
\* flow, SAML flow, JWT token, first session's type, form-based flow,
\* JSON-API flow, Basic method, any other method; a SAML flow without an
\* OAuth2 flow gives a SAML primary method with High confidence.
C6_PrimaryMethodPriority ==
  Reported =>
    LET a == analysis
        Has(flow_types) ==
          \E k \in 1..Len(a.flows) : a.flows[k].flow_type.type \in flow_types
        Is(method_types, confidence) ==
          /\ IsSome(report.summary)
          /\ PrimaryMethod.method_type \in method_types
          /\ PrimaryMethod.confidence = confidence
    IN  IF Has({"OAuth2AuthorizationCode", "OAuth2ClientCredentials", "OAuth2Implicit"})
        THEN Is({"OAuth 2.0 Authorization Code with PKCE",
                 "OAuth 2.0 Authorization Code", "OAuth 2.0 Client Credentials",
                 "OAuth 2.0 Implicit"}, "High")
        ELSE IF a.saml_flows # <<>> THEN Is({"SAML SSO"}, "High")
        ELSE IF a.jwt_tokens # <<>> THEN Is({"JWT Bearer Token"}, "High")
        ELSE IF a.sessions # <<>>
        THEN Is(IF a.sessions[1].session_type.type = "Cookie"
                THEN {"Cookie-Based Session"}
                ELSE IF a.sessions[1].session_type.type = "BearerToken"
                THEN {"JWT Bearer Token", "Bearer Token"}
                ELSE {"API Key"}, "High")
        ELSE IF Has({"FormBased"}) THEN Is({"Form-Based Login"}, "Medium")
        ELSE IF Has({"JsonApi"}) THEN Is({"JSON API Authentication"}, "Medium")
        ELSE IF "Basic" \in MethodTags
        THEN Is({"HTTP Basic Authentication"}, "High")
        ELSE IF a.methods # <<>> THEN Is({"Unknown Authentication"}, "Low")
        ELSE TRUE

\* s and t hold the same elements, each the same number of times
SameElements(s, t) ==
  /\ Len(s) = Len(t)
  /\ \A x \in Range(s) :
       Cardinality({k \in 1..Len(s) : s[k] = x})
         = Cardinality({k \in 1..Len(t) : t[k] = x})

FirstSeen(sessions) == [k \in 1..Len(sessions) |-> sessions[k].first_seen]

\* C2 as claimed: two runs of analyze on the same archive return
\* structurally identical values, the order of every list included.
C2_RunsIdentical == pc = "reanalyzed" => analysis = analysis2

\* C2 as amended: two runs agree on whether analyze aborts, return the same
\* flows, events, JWT issues, SAML flows and issues and advanced-security
\* results, and return the same methods, JWT tokens, sessions and security
\* notes up to their order, the sessions being in first_seen order in both.
C2_RunsAgreeUpToHashOrder ==
  pc = "reanalyzed" =>
    /\ analysis.outcome = analysis2.outcome
    /\ analysis.flows = analysis2.flows
    /\ analysis.events = analysis2.events
    /\ analysis.jwt_issues = analysis2.jwt_issues
    /\ analysis.saml_flows = analysis2.saml_flows
    /\ analysis.saml_security_issues = analysis2.saml_security_issues
    /\ analysis.advanced_security = analysis2.advanced_security
    /\ SameElements(analysis.methods, analysis2.methods)
    /\ SameElements(analysis.jwt_tokens, analysis2.jwt_tokens)
    /\ SameElements(analysis.sessions, analysis2.sessions)
    /\ SameElements(analysis.security_notes, analysis2.security_notes)
    /\ FirstSeen(analysis.sessions) = FirstSeen(analysis2.sessions)

\* two runs whose methods, tokens and sessions come out in different orders
C2_OrdersDiffer ==
  /\ pc = "reanalyzed"
  /\ analysis.outcome = "Ok"
  /\ analysis.methods # analysis2.methods
  /\ analysis.jwt_tokens # analysis2.jwt_tokens
  /\ analysis.sessions # analysis2.sessions

\* C4 as claimed: every flow has at least 2 steps, except OAuth2Implicit
\* flows and IdP-initiated SAML flows; an anchor alone is discarded.
C4_TwoStepsExceptImplicitAndIdp ==
  Analyzed =>
    /\ \A k \in 1..Len(analysis.flows) :
         \/ Len(analysis.flows[k].steps) >= 2
         \/ analysis.flows[k].flow_type.type = "OAuth2Implicit"
    /\ \A k \in 1..Len(analysis.saml_flows) :
         \/ Len(analysis.saml_flows[k].steps) >= 2
         \/ analysis.saml_flows[k].flow_type = "IdpInitiated"

\* C4 as amended: every flow has at least 2 steps, except OAuth2Implicit
\* and OAuth2ClientCredentials flows and IdP-initiated and Logout SAML
\* flows, which are recorded for their anchor alone; an anchor of any other
\* type with no further matched step is discarded.
C4_TwoStepsExceptAnchorOnlyTypes ==
  Analyzed =>
    /\ \A k \in 1..Len(analysis.flows) :
         \/ Len(analysis.flows[k].steps) >= 2
         \/ analysis.flows[k].flow_type.type
              \in {"OAuth2Implicit", "OAuth2ClientCredentials"}
    /\ \A k \in 1..Len(analysis.saml_flows) :
         \/ Len(analysis.saml_flows[k].steps) >= 2
         \/ analysis.saml_flows[k].flow_type \in {"IdpInitiated", "Logout"}

\* a login page whose anchor alone was discarded, next to a client-
\* credentials flow recorded with its anchor alone
C4_AnchorDiscardedAndAnchorKept ==
  /\ Analyzed
  /\ \E i \in 1..Len(har) : is_login_page_request(har[i])
  /\ \A k \in 1..Len(analysis.flows) :
       analysis.flows[k].flow_type.type # "FormBased"
  /\ \E k \in 1..Len(analysis.flows) :
       /\ analysis.flows[k].flow_type.type = "OAuth2ClientCredentials"
       /\ Len(analysis.flows[k].steps) = 1

AllFlowSteps ==
  [k \in 1..Len(analysis.flows) |-> analysis.flows[k].steps]
    \o [k \in 1..Len(analysis.saml_flows) |-> analysis.saml_flows[k].steps]

\* C5: in every AuthFlow and SamlFlow the steps are in non-decreasing
\* entry-index order.
C5_StepsInIndexOrder ==
  Analyzed =>
    \A f \in 1..Len(AllFlowSteps) : \A k \in 1..Len(AllFlowSteps[f]) - 1 :
      AllFlowSteps[f][k].entry_index <= AllFlowSteps[f][k + 1].entry_index

\* the three transactions of the form login: a GET of a /login URL answered
\* with HTML, a POST to a login URL with a form body holding username (or
\* email) and password whose response sets an auth-looking cookie, and a
\* request carrying an auth-looking cookie
FormLoginExchange ==
  /\ Len(har) = 3
  /\ har[1].request.method = "GET"
  /\ Contains(har[1].request.url, "/login")
  /\ Contains(har[1].response.content.mime_type, "text/html")
  /\ har[2].request.method = "POST"
  /\ Contains(har[2].request.url, "/login")
  /\ IsSome(PostText(har[2]))
  /\ Contains(Unwrap(har[2].request.post_data).mime_type,
              "application/x-www-form-urlencoded")
  /\ \/ Contains(Unwrap(PostText(har[2])), "username")
     \/ Contains(Unwrap(PostText(har[2])), "email")
  /\ Contains(Unwrap(PostText(har[2])), "password")
  /\ \E j \in 1..Len(har[2].response.cookies) :
       methods_is_auth_cookie(har[2].response.cookies[j].name)
  /\ \E j \in 1..Len(har[3].request.cookies) :
       methods_is_auth_cookie(har[3].request.cookies[j].name)

FormFlows ==
  SelectSeq(analysis.flows, LAMBDA f : f.flow_type.type = "FormBased")

\* C8: for the three transactions of a form login the flow list holds
\* exactly one FormBased flow, with the steps LoginPage,
\* CredentialsSubmission, FirstAuthenticatedRequest at entries 0, 1, 2.
C8_FormLoginThreeSteps ==
  Analyzed /\ FormLoginExchange =>
    /\ Len(FormFlows) = 1
    /\ [k \in 1..Len(FormFlows[1].steps) |->
          <<FormFlows[1].steps[k].role, FormFlows[1].steps[k].entry_index>>]
         = << <<"LoginPage", 0>>, <<"CredentialsSubmission", 1>>,
              <<"FirstAuthenticatedRequest", 2>> >>

\* the tokens har shows in Authorization headers and JSON response bodies
ObservedTokens ==
  {jwt_ops(har)[k].token :
     k \in {k \in 1..Len(jwt_ops(har)) : jwt_ops(har)[k].op = "token"}}

\* the decoded header of the token has alg equal to none, in any case
HasAlgNone(token) ==
  AndThen(parse_jwt_header(Split(token, ".")[1]), LAMBDA header :
    AndThen(header.alg, LAMBDA alg : Some(ToLower(alg) = "none"))) = Some(TRUE)

AlgNoneTokens == {token \in ObservedTokens : HasAlgNone(token)}

NoAlgorithmIssues ==
  SelectSeq(analysis.jwt_issues, LAMBDA issue : issue.issue_type = "NoAlgorithm")

\* C11: when har holds one JWT whose header has alg none, seen once or more
\* in Authorization headers or JSON bodies, the JWT issue list holds exactly
\* one NoAlgorithm issue, and its severity is Critical.
C11_OneNoAlgorithmIssue ==
  Analyzed /\ Cardinality(AlgNoneTokens) = 1 =>
    /\ Len(NoAlgorithmIssues) = 1
    /\ NoAlgorithmIssues[1].severity = "Critical"

\* the response of har[i] carries a header of that name and value
ResponseCarries(i, name, value) ==
  \E j \in 1..Len(har[i].response.headers) :
    /\ ToLower(har[i].response.headers[j].name) = name
    /\ har[i].response.headers[j].value = value

WildcardIssuesAt(idx) ==
  SelectSeq(analysis.advanced_security.cors_issues,
            LAMBDA issue : /\ issue.issue_type = "WildcardWithCredentials"
                           /\ issue.entry_index = idx)

\* C12: for every transaction whose response carries
\* Access-Control-Allow-Origin: * together with
\* Access-Control-Allow-Credentials: true, in either order, the CORS issue
\* list holds exactly one WildcardWithCredentials issue for its index, and
\* that issue is Critical.
C12_WildcardWithCredentials ==
  Analyzed =>
    \A i \in 1..Len(har) :
      /\ ResponseCarries(i, "access-control-allow-origin", "*")
      /\ ResponseCarries(i, "access-control-allow-credentials", "true")
      => /\ Len(WildcardIssuesAt(i - 1)) = 1
         /\ WildcardIssuesAt(i - 1)[1].severity = "Critical"

\* C13: on an empty transaction list analyze returns Ok with every
\* collection empty, and the primary-method summary reports that no
\* authentication was detected.
C13_EmptyArchive ==
  /\ pc # "load" /\ har = <<>> => analysis = NoAnalysis("Ok")
  /\ Reported /\ har = <<>> =>
       /\ IsSome(report.summary)
       /\ PrimaryMethod.method_type = "None Detected"
       /\ PrimaryMethod.confidence = "Low"

\* the text a session identifier shows of a value, without its ellipsis
ShownPrefix(shown) ==
  IF Len(shown) > 3 /\ SliceFrom(shown, Len(shown) - 3) = "..."
  THEN SliceTo(shown, Len(shown) - 3)
  ELSE shown

\* the request of the entry carries the credential that identifies session
CarriesCredential(entry, session) ==
  CASE session.session_type.type = "Cookie" ->
         \E j \in 1..Len(entry.request.cookies) :
           entry.request.cookies[j].name = session.session_type.name
    [] session.session_type.type = "BearerToken" ->
         \E j \in 1..Len(entry.request.headers) :
           /\ ToLower(entry.request.headers[j].name) = "authorization"
           /\ StartsWith(entry.request.headers[j].value, "Bearer ")
           /\ StartsWith(Trim(SliceFrom(entry.request.headers[j].value, 7)),
                         ShownPrefix(SliceFrom(session.identifier, 7)))
    [] session.session_type.type = "ApiKey" ->
         \E j \in 1..Len(entry.request.headers) :
           entry.request.headers[j].name = session.session_type.name

\* C14: every entry index of every session is a position of har whose
\* request carries the session's identifying credential (the cookie name,
\* the Bearer token with the shown prefix, or the API-key header), and
\* request_count is the number of entry indices.
C14_SessionIndicesCarryCredential ==
  Analyzed =>
    \A s \in 1..Len(analysis.sessions) :
      /\ analysis.sessions[s].request_count = Len(analysis.sessions[s].entry_indices)
      /\ \A k \in 1..Len(analysis.sessions[s].entry_indices) :
           /\ analysis.sessions[s].entry_indices[k] \in 0..Len(har) - 1
           /\ CarriesCredential(har[analysis.sessions[s].entry_indices[k] + 1],
                                analysis.sessions[s])

\* an archive of two transactions that gives a cookie session, a Bearer
\* session and an API-key session, one of them seen at the second position
C14_ThreeKindsOfSession ==
  /\ Analyzed
  /\ {analysis.sessions[s].session_type.type : s \in 1..Len(analysis.sessions)}
       = {"Cookie", "BearerToken", "ApiKey"}
  /\ \E s \in 1..Len(analysis.sessions) : analysis.sessions[s].entry_indices = <<1>>

\* the leading characters that tell one token from another
Lead(token) == IF Len(token) > JwtKeyLen THEN SliceTo(token, JwtKeyLen) ELSE token

\* the entry shows text with that lead in an Authorization request header
\* or in its response body
Shows(entry, lead) ==
  \/ \E j \in 1..Len(entry.request.headers) :
       /\ ToLower(entry.request.headers[j].name) = "authorization"
       /\ Contains(entry.request.headers[j].value, lead)
  \/ /\ IsSome(entry.response.content.text)
     /\ Contains(Unwrap(entry.response.content.text), lead)

\* C15: for every JwtToken, usage_count is the length of entry_indices,
\* entry_indices is not empty, and each index is the position of a
\* transaction in which a token with the same leading 20 characters was
\* observed.
C15_UsageCountsEntries ==
  Analyzed =>
    \A t \in 1..Len(analysis.jwt_tokens) :
      /\ analysis.jwt_tokens[t].usage_count = Len(analysis.jwt_tokens[t].entry_indices)
      /\ analysis.jwt_tokens[t].entry_indices # <<>>
      /\ \A k \in 1..Len(analysis.jwt_tokens[t].entry_indices) :
           /\ analysis.jwt_tokens[t].entry_indices[k] \in 0..Len(har) - 1
           /\ Shows(har[analysis.jwt_tokens[t].entry_indices[k] + 1],
                    Lead(analysis.jwt_tokens[t].raw_token))

\* a token seen in a request header and again in a later response body
C15_TokenSeenTwice ==
  /\ Analyzed
  /\ \E t \in 1..Len(analysis.jwt_tokens) :
       /\ analysis.jwt_tokens[t].entry_indices = <<0, 1>>
       /\ analysis.jwt_tokens[t].usage_count = 2
       /\ har[2].request.headers = <<>>

\* C16: the session list is sorted by first-seen instant ascending, also
\* for timestamps written with different UTC offsets or with a fraction of
\* a second.
C16_SessionsSortedByInstant ==
  Analyzed =>
    \A k \in 1..Len(analysis.sessions) - 1 :
      parse_timestamp(analysis.sessions[k].first_seen)
        <= parse_timestamp(analysis.sessions[k + 1].first_seen)


\* a and b agree up to the iteration order of the hash containers behind
\* methods, sessions, JWT tokens and the security notes built from them
AgreeUpToHashOrder(a, b) ==
  /\ a.outcome = b.outcome
  /\ a.flows = b.flows
  /\ a.events = b.events
  /\ a.jwt_issues = b.jwt_issues
  /\ a.saml_flows = b.saml_flows
  /\ a.saml_security_issues = b.saml_security_issues
  /\ a.advanced_security = b.advanced_security
  /\ SameElements(a.methods, b.methods)
  /\ SameElements(a.jwt_tokens, b.jwt_tokens)
  /\ SameElements(a.sessions, b.sessions)
  /\ SameElements(a.security_notes, b.security_notes)
  /\ FirstSeen(a.sessions) = FirstSeen(b.sessions)

CarriesAuthorizationOrCookie(i) ==
  \E j \in 1..Len(har[i].request.headers) :
    ToLower(har[i].request.headers[j].name) \in {"authorization", "cookie"}

\* the transaction at position i has a SessionExpired event
SessionExpiredAt(i) ==
  \E k \in 1..Len(analysis.events) :
    /\ analysis.events[k].event_type = "SessionExpired"
    /\ analysis.events[k].entry_index = i - 1

\* the response of har[i] has no body text, or one that says expired,
\* invalid or unauthorized in any case of letters
BodyAbsentOrSaysExpired(i) ==
  LET text == har[i].response.content.text
  IN  text = None \/ \E word \in {"expired", "invalid", "unauthorized"} :
                       Contains(ToLower(Unwrap(text)), word)

\* C18 as claimed: a transaction has a SessionExpired event iff its status
\* is 401 and its request carries an Authorization or a Cookie header,
\* whatever the response body says.
C18_ExpiredIffDeniedWithCredential ==
  Analyzed => \A i \in 1..Len(har) :
    SessionExpiredAt(i) <=>
      har[i].response.status = 401 /\ CarriesAuthorizationOrCookie(i)

\* C18 as amended: a transaction has a SessionExpired event iff its status
\* is 401, its request carries an Authorization or a Cookie header, and the
\* response body text is absent or contains "expired", "invalid" or
\* "unauthorized" (lowercased); a 401 with neither header has none.
C18_ExpiredIffDeniedWithCredentialAndBody ==
  Analyzed => \A i \in 1..Len(har) :
    SessionExpiredAt(i) <=>
      /\ har[i].response.status = 401
      /\ CarriesAuthorizationOrCookie(i)
      /\ BodyAbsentOrSaysExpired(i)

\* a refused request with a credential whose body says so has the event, a
\* second one whose body says something else has none
C18_OneExpiredOneSilent ==
  /\ Analyzed
  /\ \E i, j \in 1..Len(har) :
       /\ SessionExpiredAt(i) /\ har[i].response.content.text # None
       /\ ~SessionExpiredAt(j)
       /\ har[j].response.status = 401 /\ CarriesAuthorizationOrCookie(j)

\* the 0-based indices of the transactions used as a step with one of the
\* roles in some SAML flow
SamlStepIndices(roles) ==
  UNION {{analysis.saml_flows[f].steps[k].entry_index :
            k \in {k \in 1..Len(analysis.saml_flows[f].steps) :
                     analysis.saml_flows[f].steps[k].role \in roles}} :
         f \in 1..Len(analysis.saml_flows)}

CriticalSamlIssueAt(idx) ==
  \E k \in 1..Len(analysis.saml_security_issues) :
    /\ analysis.saml_security_issues[k].severity = "Critical"
    /\ analysis.saml_security_issues[k].entry_index = idx

\* C19: every transaction used as an AuthnRequest or SamlResponse step of a
\* SAML flow, SP-initiated or IdP-initiated, whose URL starts with http://
\* has a Critical SamlSecurityIssue carrying its entry index.
C19_InsecureSamlStepIsCritical ==
  Analyzed => \A idx \in SamlStepIndices({"AuthnRequest", "SamlResponse"}) :
    StartsWith(har[idx + 1].request.url, "http://") => CriticalSamlIssueAt(idx)

\* some request cookie of har has a name that, lowercased, contains session,
\* auth, token or jwt, or is sid
SomeCookieNamedForAuth ==
  \E i \in 1..Len(har) : \E c \in 1..Len(har[i].request.cookies) :
    LET lower == ToLower(har[i].request.cookies[c].name)
    IN  \/ \E word \in {"session", "auth", "token", "jwt"} : Contains(lower, word)
        \/ lower = "sid"

\* C20: detect reports Cookie iff some request cookie is named for
\* authentication, whatever the cookie values and the other cookies are,
\* and reports no method twice.
C20_CookieIffCookieName ==
  Analyzed =>
    /\ (\E k \in 1..Len(analysis.methods) : analysis.methods[k].tag = "Cookie")
         <=> SomeCookieNamedForAuth
    /\ \A k, l \in 1..Len(analysis.methods) :
         analysis.methods[k] = analysis.methods[l] => k = l

\* the lookahead the specification gives the scan for a step of this role
Lookahead(role) ==
  IF role \in {"CredentialsSubmission", "AssertionConsumerService", "LogoutResponse"}
  THEN 5
  ELSE IF role \in {"FirstAuthenticatedRequest", "IdpRedirect"} THEN 10
  ELSE 15

\* step k of steps lies inside the window after the step it follows: the
\* SAML Response and the IdP interaction follow the anchor, every other
\* scanned step follows the step before it
InsideWindow(steps, k) ==
  LET follows == IF steps[k].role \in {"SamlResponse", "IdpRedirect"} THEN 1 ELSE k - 1
  IN  steps[k].role \in {"CredentialsSubmission", "AssertionConsumerService",
                         "LogoutResponse", "FirstAuthenticatedRequest",
                         "IdpRedirect", "SamlResponse"}
        => steps[k].entry_index <= steps[follows].entry_index + Lookahead(steps[k].role)

\* C21: every step found by a bounded forward scan has an index of at most
\* p + W, p the index of the step it follows and W the lookahead of its role.
C21_StepsInsideWindow ==
  Analyzed =>
    /\ \A f \in 1..Len(analysis.flows) :
         \A k \in 2..Len(analysis.flows[f].steps) :
           InsideWindow(analysis.flows[f].steps, k)
    /\ \A f \in 1..Len(analysis.saml_flows) :
         \A k \in 2..Len(analysis.saml_flows[f].steps) :
           InsideWindow(analysis.saml_flows[f].steps, k)

\* the OAuth2AuthorizationCode flows of the analysis
CodeFlows ==
  {analysis.flows[f] : f \in {f \in 1..Len(analysis.flows) :
     analysis.flows[f].flow_type.type = "OAuth2AuthorizationCode"}}

\* the transaction a step references
StepEntry(step) == har[step.entry_index + 1]

\* a POST to a /token URL whose body has the grant type and the verifier
TokenRequestWithVerifier(entry) ==
  /\ entry.request.method = "POST"
  /\ Contains(entry.request.url, "/token")
  /\ entry.request.post_data # None
  /\ Unwrap(entry.request.post_data).text # None
  /\ Contains(Unwrap(Unwrap(entry.request.post_data).text),
              "grant_type=authorization_code")
  /\ Contains(Unwrap(Unwrap(entry.request.post_data).text), "code_verifier=")

\* C22: pkce is true exactly when the anchor URL contains code_challenge=
\* and code_challenge_method=, and the TokenExchange step of a flow with
\* pkce = true is a POST to a /token URL whose body contains
\* grant_type=authorization_code and code_verifier=.
C22_PkceExchangeHasVerifier ==
  Analyzed => \A flow \in CodeFlows :
    /\ flow.flow_type.pkce <=>
         /\ Contains(StepEntry(flow.steps[1]).request.url, "code_challenge=")
         /\ Contains(StepEntry(flow.steps[1]).request.url, "code_challenge_method=")
    /\ flow.flow_type.pkce =>
         \A k \in 1..Len(flow.steps) :
           flow.steps[k].role = "TokenExchange"
             => TokenRequestWithVerifier(StepEntry(flow.steps[k]))

\* a PKCE flow whose exchange step passed over an earlier token request
\* that has no verifier
C22_RequestWithoutVerifierSkipped ==
  /\ Analyzed
  /\ \E flow \in CodeFlows :
       /\ flow.flow_type.pkce
       /\ Len(flow.steps) >= 3
       /\ flow.steps[3].role = "TokenExchange"
       /\ \E i \in 1..Len(har) :
            /\ flow.steps[2].entry_index < i - 1
            /\ i - 1 < flow.steps[3].entry_index
            /\ is_token_exchange(har[i], FALSE)

CodeFlowRoles ==
  <<"AuthorizationRequest", "AuthorizationCallback", "TokenExchange",
    "FirstAuthenticatedRequest">>

\* C23: the roles of an OAuth2AuthorizationCode flow are a prefix, of length
\* 2 at least, of AuthorizationRequest, AuthorizationCallback,
\* TokenExchange, FirstAuthenticatedRequest, with strictly increasing entry
\* indices.
C23_CodeFlowRolesArePrefix ==
  Analyzed => \A flow \in CodeFlows :
    /\ Len(flow.steps) >= 2
    /\ Len(flow.steps) <= Len(CodeFlowRoles)
    /\ \A k \in 1..Len(flow.steps) : flow.steps[k].role = CodeFlowRoles[k]
    /\ \A k \in 1..Len(flow.steps) - 1 :
         flow.steps[k].entry_index < flow.steps[k + 1].entry_index

\* a flow of all four steps
C23_FullCodeFlow ==
  /\ Analyzed
  /\ \E flow \in CodeFlows : Len(flow.steps) = Len(CodeFlowRoles)

\* tokens_map and the issue list after the first n transactions
JwtAfter(n) == jwt_final(SubSeq(har, 1, n))

\* the issues raised by the token security rules
TokenRuleIssues(issues) ==
  SelectSeq(issues, LAMBDA issue : issue.issue_type # "TokenInUrl")

\* transaction n leaves binding k of the map as it was, but for last_seen
\* and the appended entry index when it observes the key again
RepeatKeepsBinding(before, after, n) ==
  /\ after.key = before.key
  /\ [after.token EXCEPT !.last_seen = before.token.last_seen] = before.token
  /\ IF after.indices = before.indices
     THEN after.token.last_seen = before.token.last_seen
     ELSE /\ after.token.last_seen = har[n].started_date_time
          /\ Len(after.indices) > Len(before.indices)
          /\ \A j \in 1..Len(after.indices) :
               after.indices[j] = IF j <= Len(before.indices) THEN before.indices[j]
                                  ELSE n - 1

\* C24: the result holds at most one JwtToken per leading-20-character key;
\* a transaction that observes a recorded key again only sets last_seen to
\* its timestamp and appends its entry index: first_seen, header and claims
\* stay, and no security issue is added for it.
C24_RepeatOnlyTouchesLastSeen ==
  pc = "analyzed" /\ analysis.outcome = "Ok" =>
    /\ \A t, u \in 1..Len(analysis.jwt_tokens) :
         Lead(analysis.jwt_tokens[t].raw_token) = Lead(analysis.jwt_tokens[u].raw_token)
           => t = u
    /\ \A n \in 1..Len(har) :
         LET before == JwtAfter(n - 1)
             after == JwtAfter(n)
         IN  /\ Len(after.map) >= Len(before.map)
             /\ \A k \in 1..Len(before.map) :
                  RepeatKeepsBinding(before.map[k], after.map[k], n)
             /\ Len(after.map) = Len(before.map)
                  => TokenRuleIssues(after.issues) = TokenRuleIssues(before.issues)

\* a recorded key is observed again with another token behind it, in a
\* later transaction
C24_KeySeenAgainWithOtherToken ==
  /\ Analyzed
  /\ Len(har) = 2
  /\ har[1].request.headers # <<>> /\ har[2].request.headers # <<>>
  /\ har[1].request.headers # har[2].request.headers
  /\ har[1].started_date_time # har[2].started_date_time
  /\ \E t \in 1..Len(analysis.jwt_tokens) :
       /\ analysis.jwt_tokens[t].entry_indices = <<0, 1>>
       /\ analysis.jwt_tokens[t].first_seen = har[1].started_date_time
       /\ analysis.jwt_tokens[t].last_seen = har[2].started_date_time

\* the login events of the transaction at position i
LoginEventsAt(i) ==
  SelectSeq(analysis.events, LAMBDA event :
    /\ event.event_type \in {"LoginSuccess", "LoginFailure"}
    /\ event.entry_index = i - 1)

\* status 200 or 201 and an auth-looking cookie set, a token-looking key in
\* a JSON body, or a 3xx status
AnsweredAsSuccess(entry) ==
  /\ entry.response.status = 200 \/ entry.response.status = 201
  /\ \/ \E c \in 1..Len(entry.response.cookies) :
          \E word \in {"session", "auth", "token"} :
            Contains(ToLower(entry.response.cookies[c].name), word)
     \/ /\ Contains(entry.response.content.mime_type, "application/json")
        /\ entry.response.content.text # None
        /\ \E key \in {"\"token\"", "\"access_token\"", "\"accessToken\""} :
             Contains(Unwrap(entry.response.content.text), key)
     \/ entry.response.status \in 300..399

C26_PasswordGrantIsLoginAttempt ==
  Analyzed => \A i \in 1..Len(har) :
    /\ har[i].request.method = "POST"
    /\ Contains(ToLower(har[i].request.url), "/token")
    /\ har[i].request.post_data # None
    /\ Unwrap(har[i].request.post_data).text # None
    /\ Contains(Unwrap(Unwrap(har[i].request.post_data).text), "grant_type=password")
    => LoginEventsAt(i) # <<>>

\* the Critical notes of category Transport Security
TransportNotes ==
  SelectSeq(analysis.security_notes, LAMBDA note :
    note.severity = "Critical" /\ note.category = "Transport Security")

\* the positions of the transactions with an http:// URL that carry an
\* Authorization header, a header with api in its name, or a cookie named
\* for authentication
CredentialsOverHttp ==
  {i \in 1..Len(har) :
     /\ StartsWith(har[i].request.url, "http://")
     /\ \/ \E h \in 1..Len(har[i].request.headers) :
             \/ ToLower(har[i].request.headers[h].name) = "authorization"
             \/ Contains(ToLower(har[i].request.headers[h].name), "api")
        \/ \E c \in 1..Len(har[i].request.cookies) :
             \E word \in {"session", "auth", "token", "jwt", "sid"} :
               Contains(ToLower(har[i].request.cookies[c].name), word)}

\* C27: there is at most one Critical Transport Security note; there is one
\* exactly when some transaction sends credentials over http://, and its
\* entry_index is the smallest index of such a transaction.
C27_OneTransportNoteForFirst ==
  Analyzed =>
    /\ Len(TransportNotes) <= 1
    /\ TransportNotes # <<>> <=> CredentialsOverHttp # {}
    /\ TransportNotes # <<>> =>
         /\ TransportNotes[1].entry_index # None
         /\ Unwrap(TransportNotes[1].entry_index) + 1 \in CredentialsOverHttp
         /\ \A i \in CredentialsOverHttp : Unwrap(TransportNotes[1].entry_index) + 1 <= i

\* two transactions send credentials over http:// and the note names the
\* first
C27_SecondOccurrenceSuppressed ==
  /\ Analyzed
  /\ CredentialsOverHttp = {1, 2}
  /\ Len(TransportNotes) = 1
  /\ TransportNotes[1].entry_index = Some(0)

\* milliseconds since the epoch of an RFC 3339 timestamp, 0 for any other
\* string
ParseOrZero(timestamp) ==
  IF TimestampFields(timestamp) = None THEN 0
  ELSE TimestampMillis(Unwrap(TimestampFields(timestamp)))

\* C28: the duration of every flow and of every session is end minus start
\* in milliseconds, a timestamp that does not parse counting 0 on its side,
\* so that a flow and a session over the same two timestamps have the same
\* duration.
C28_DurationsParseOrZero ==
  Analyzed =>
    /\ \A f \in 1..Len(analysis.flows) :
         analysis.flows[f].duration_ms =
           ParseOrZero(Unwrap(analysis.flows[f].end_time))
             - ParseOrZero(analysis.flows[f].start_time)
    /\ \A k \in 1..Len(analysis.sessions) :
         analysis.sessions[k].duration_ms =
           ParseOrZero(analysis.sessions[k].last_seen)
             - ParseOrZero(analysis.sessions[k].first_seen)
    /\ \A f \in 1..Len(analysis.flows) : \A k \in 1..Len(analysis.sessions) :
         /\ analysis.flows[f].start_time = analysis.sessions[k].first_seen
         /\ analysis.flows[f].end_time = Some(analysis.sessions[k].last_seen)
         => analysis.flows[f].duration_ms = analysis.sessions[k].duration_ms

(***************************************************************************)
(* The deduplicated findings view as a whole.                              *)
(***************************************************************************)
Buckets == <<report.findings.critical, report.findings.warnings, report.findings.info>>

RECURSIVE CountSum(_)
CountSum(findings) ==
  IF findings = <<>> THEN 0 ELSE Head(findings).count + CountSum(Tail(findings))

FindingsInAnalysis ==
  Len(analysis.security_notes)
  + Len(analysis.advanced_security.token_exposures)
  + Len(analysis.advanced_security.cors_issues)
  + Len(analysis.advanced_security.csp_findings)

\* C29: every aggregated finding has a count of at least 1 and at most
\* min(3, count) sample entry indices, every bucket is ordered by count,
\* largest first, and the counts of the three buckets add up to the number
\* of security notes, token exposures, CORS issues and CSP findings of the
\* analysis.
C29_CountsSamplesOrderTotal ==
  pc = "reported" =>
    /\ \A b \in 1..3 : \A k \in 1..Len(Buckets[b]) :
         /\ Buckets[b][k].count >= 1
         /\ Len(Buckets[b][k].sample_entries) <= Min(3, Buckets[b][k].count)
         /\ k > 1 => Buckets[b][k - 1].count >= Buckets[b][k].count
    /\ CountSum(Buckets[1]) + CountSum(Buckets[2]) + CountSum(Buckets[3])
         = FindingsInAnalysis

\* a finding seen more than 3 times, reported ahead of a finding of the same
\* bucket that was seen less often
C29_RepeatedFindingFirst ==
  /\ pc = "reported"
  /\ \E b \in 1..3 : \E k \in 2..Len(Buckets[b]) :
       /\ Buckets[b][1].count > 3
       /\ Len(Buckets[b][1].sample_entries) = 3
       /\ Buckets[b][k].count < Buckets[b][1].count

(***************************************************************************)
(* SAML responses and the flows that cover them.                           *)
(***************************************************************************)
\* the 0-based indices of the transactions matching is_saml_response
SamlResponseIndices == {i - 1 : i \in {i \in 1..Len(har) : is_saml_response(har[i])}}

InSpInitiatedFlow(idx) ==
  \E f \in 1..Len(analysis.saml_flows) :
    /\ analysis.saml_flows[f].flow_type = "SpInitiated"
    /\ \E k \in 1..Len(analysis.saml_flows[f].steps) :
         analysis.saml_flows[f].steps[k].entry_index = idx

IdpInitiatedFlows ==
  {f \in 1..Len(analysis.saml_flows) : analysis.saml_flows[f].flow_type = "IdpInitiated"}

IdpFlowsAnchoredAt(idx) ==
  {f \in IdpInitiatedFlows : analysis.saml_flows[f].steps[1].entry_index = idx}

\* C30: every transaction matching the SAML Response predicate is either a
\* step of some SP-initiated flow or the first step of exactly one
\* IdP-initiated flow, never both, and no IdP-initiated flow starts at a
\* transaction that is a step of an SP-initiated flow.
C30_ResponseCoveredOnce ==
  Analyzed =>
    /\ \A idx \in SamlResponseIndices :
         IF InSpInitiatedFlow(idx)
         THEN IdpFlowsAnchoredAt(idx) = {}
         ELSE Cardinality(IdpFlowsAnchoredAt(idx)) = 1
    /\ \A f \in IdpInitiatedFlows :
         ~InSpInitiatedFlow(analysis.saml_flows[f].steps[1].entry_index)

\* one SAML response is a step of an SP-initiated flow and a later one
\* starts an IdP-initiated flow
C30_OneConsumedOneAnchor ==
  /\ Analyzed
  /\ \E consumed, anchor \in SamlResponseIndices :
       /\ consumed < anchor
       /\ InSpInitiatedFlow(consumed)
       /\ IdpFlowsAnchoredAt(anchor) # {}

====
